---- MODULE Spec2Model ----
(***************************************************************************)
(* Judo: ordered lists of to-do items kept in SQLite (db/ops.rs) and the   *)
(* keyboard-driven session that browses and edits them (app/events.rs,     *)
(* ui/components/items.rs).                                                *)
(*                                                                         *)
(* Indices are 0-based as in the Rust code: the cursor j denotes the       *)
(* element items[j], which is the (j+1)-th element of the TLA+ sequence.   *)
(***************************************************************************)
EXTENDS Integers, Sequences, FiniteSets, TLC

\* ---------------------------------------------------------------- bounds
\* Number of lists / items the session may create in one run, and the longest
\* text the user types into the input buffer.
MaxListId == 2
MaxItemId == 3
MaxInput == 1
\* Number of databases the configuration may hold, the first one included.
MaxDbs == 2
\* Number of items in the list two concurrent requests work on.
MaxScope == 4

\* Characters a key press can carry (KeyCode::Char(value)).
Chars == {"X", " "}

\* Option<usize>::None of a ratatui ListState.
None == -1
\* usize::MAX, the value ListState::select_last / select_previous store until the
\* next render (any value above every collection length behaves the same).
USIZE_MAX == 2147483647

VARIABLES
    todo_lists,     \* table todo_lists: set of rows [id, name, ordering]
    todo_items,     \* table todo_items: set of rows [id, list_id, name, is_done, ordering]
    next_list_id,   \* id the next INSERT INTO todo_lists returns
    next_item_id,   \* id the next INSERT INTO todo_items returns
    lists,          \* ListsComponent.lists: Vec<UIList>, the snapshot
    list_state,     \* ListsComponent.list_state.selected(): the list cursor
    current_screen, \* App.current_screen
    input_state,    \* App.input_state: [current_input, is_modifying]
    pc,             \* position in the draw / read-key loop of App::run
    last,           \* history: the intent handled since the last draw and what it did
    config_dbs,     \* App.config.dbs: the names of the configured databases
    sessions        \* one-shot requests running against the same database file

vars == <<todo_lists, todo_items, next_list_id, next_item_id, lists, list_state,
          current_screen, input_state, pc, last, config_dbs, sessions>>

db_vars == <<todo_lists, todo_items, next_list_id, next_item_id>>

\* ------------------------------------------------------------- db/ops.rs

\* COALESCE(MAX(ordering), 0) over a set of rows.
CoalesceMaxOrdering(rows) ==
    IF rows = {} THEN 0
    ELSE CHOOSE m \in {x.ordering : x \in rows} : \A y \in rows : y.ordering <= m

\* ORDER BY ordering: the rows as an ascending sequence (ties, which the single
\* session never produces, in id order).
RECURSIVE OrderByOrdering(_)
OrderByOrdering(rows) ==
    IF rows = {} THEN << >>
    ELSE LET first == CHOOSE x \in rows : \A y \in rows :
                          \/ x.ordering < y.ordering
                          \/ (x.ordering = y.ordering /\ x.id <= y.id)
         IN  << first >> \o OrderByOrdering(rows \ {first})

\* Faulty variant of the UPDATE: the WHERE clause is missing.
UpdateOrdering_NoWhere(rows, ordering, id) ==
    { [x EXCEPT !.ordering = ordering] : x \in rows }

\* UPDATE <table> SET ordering = ?1 WHERE id = ?2
UpdateOrdering(rows, ordering, id) ==
    { IF x.id = id THEN [x EXCEPT !.ordering = ordering] ELSE x : x \in rows }

\* TodoList::create: next_ordering = COALESCE(MAX(ordering), 0) + 1 over all lists.
TodoList_create(tl, id, name) ==
    LET next_ordering == CoalesceMaxOrdering(tl) + 1
        row == [id |-> id, name |-> name, ordering |-> next_ordering]
    IN  [row |-> row, lists |-> tl \cup {row}]

\* TodoList::get_all
TodoList_get_all(tl) == OrderByOrdering(tl)

\* TodoList::update_name
TodoList_update_name(tl, self, new_name) ==
    [self |-> [self EXCEPT !.name = new_name],
     lists |-> { IF x.id = self.id THEN [x EXCEPT !.name = new_name] ELSE x : x \in tl }]

\* The schema's ON DELETE CASCADE of todo_items.list_id (foreign keys are on).
OnDeleteCascade(ti, list_id) == { x \in ti : x.list_id # list_id }

\* Faulty variant of TodoList::delete: the items of the list stay.
TodoList_delete_NoCascade(tl, ti, self) ==
    [lists |-> { x \in tl : x.id # self.id }, items |-> ti]

\* TodoList::delete: DELETE FROM todo_lists WHERE id = ?1 (items go by CASCADE).
TodoList_delete(tl, ti, self) ==
    LET gone == { x \in tl : x.id = self.id }
    IN  [lists |-> tl \ gone,
         items |-> IF gone = {} THEN ti ELSE OnDeleteCascade(ti, self.id)]

\* The rows "SELECT id, ordering FROM todo_lists WHERE ordering < ?1
\* ORDER BY ordering DESC LIMIT 1" can return, as Option: << >> or << row >>.
SelectPrevList(tl, self) ==
    LET below == { x \in tl : x.ordering < self.ordering }
        top == { x \in below : \A y \in below : y.ordering <= x.ordering }
    IN  IF top = {} THEN { << >> } ELSE { << x >> : x \in top }

SelectNextList(tl, self) ==
    LET above == { x \in tl : x.ordering > self.ordering }
        bottom == { x \in above : \A y \in above : y.ordering >= x.ordering }
    IN  IF bottom = {} THEN { << >> } ELSE { << x >> : x \in bottom }

\* Faulty variant of SwapOrdering: the second UPDATE is missing.
SwapOrdering_OneUpdate(rows, self, neighbor) ==
    IF neighbor = << >>
    THEN [rows |-> rows, self |-> self, swapped |-> FALSE, result |-> "Ok"]
    ELSE LET n == neighbor[1]
         IN  [rows |-> UpdateOrdering(rows, self.ordering, n.id),
              self |-> [self EXCEPT !.ordering = n.ordering],
              swapped |-> TRUE, result |-> "Ok"]

\* Faulty variant of SwapOrdering: self.ordering is not set after the swap.
SwapOrdering_StaleHandle(rows, self, neighbor) ==
    IF neighbor = << >>
    THEN [rows |-> rows, self |-> self, swapped |-> FALSE, result |-> "Ok"]
    ELSE LET n == neighbor[1]
             first == UpdateOrdering(rows, self.ordering, n.id)
             second == UpdateOrdering(first, n.ordering, self.id)
         IN  [rows |-> second, self |-> self, swapped |-> TRUE, result |-> "Ok"]

\* The swap of TodoList::move_up / move_down and TodoItem::move_up / move_down,
\* given the neighbor the SELECT returned: two UPDATEs, then self.ordering.
SwapOrdering(rows, self, neighbor) ==
    IF neighbor = << >>
    THEN [rows |-> rows, self |-> self, swapped |-> FALSE, result |-> "Ok"]
    ELSE LET n == neighbor[1]
             first == UpdateOrdering(rows, self.ordering, n.id)
             second == UpdateOrdering(first, n.ordering, self.id)
         IN  [rows |-> second,
              self |-> [self EXCEPT !.ordering = n.ordering],
              swapped |-> TRUE, result |-> "Ok"]

TodoList_move_up(tl, self, prev_list) == SwapOrdering(tl, self, prev_list)

TodoList_move_down(tl, self, next_list) == SwapOrdering(tl, self, next_list)

\* Faulty variant of TodoItem::create: the + 1 is missing.
TodoItem_create_NoIncrement(ti, id, list_id, name) ==
    LET next_ordering == CoalesceMaxOrdering({ x \in ti : x.list_id = list_id })
        row == [id |-> id, list_id |-> list_id, name |-> name, is_done |-> FALSE,
                ordering |-> next_ordering]
    IN  [row |-> row, items |-> ti \cup {row}]

\* Faulty variant of TodoItem::create: the WHERE list_id = ?1 is missing.
TodoItem_create_GlobalMax(ti, id, list_id, name) ==
    LET next_ordering == CoalesceMaxOrdering(ti) + 1
        row == [id |-> id, list_id |-> list_id, name |-> name, is_done |-> FALSE,
                ordering |-> next_ordering]
    IN  [row |-> row, items |-> ti \cup {row}]

\* TodoItem::create: next_ordering = COALESCE(MAX(ordering), 0) + 1 over the
\* items WHERE list_id = ?1; is_done FALSE.
TodoItem_create(ti, id, list_id, name) ==
    LET next_ordering == CoalesceMaxOrdering({ x \in ti : x.list_id = list_id }) + 1
        row == [id |-> id, list_id |-> list_id, name |-> name, is_done |-> FALSE,
                ordering |-> next_ordering]
    IN  [row |-> row, items |-> ti \cup {row}]

\* TodoItem::get_by_list_id
TodoItem_get_by_list_id(ti, list_id) ==
    OrderByOrdering({ x \in ti : x.list_id = list_id })

\* Faulty variant of TodoItem::update_name: WHERE list_id = ?2 instead of id = ?2.
TodoItem_update_name_WholeList(ti, self, new_name) ==
    [self |-> [self EXCEPT !.name = new_name],
     items |-> { IF x.list_id = self.list_id THEN [x EXCEPT !.name = new_name] ELSE x
                 : x \in ti }]

\* TodoItem::update_name
TodoItem_update_name(ti, self, new_name) ==
    [self |-> [self EXCEPT !.name = new_name],
     items |-> { IF x.id = self.id THEN [x EXCEPT !.name = new_name] ELSE x : x \in ti }]

\* Faulty variant of TodoItem::toggle_done: self.is_done is not set after the UPDATE.
TodoItem_toggle_done_StaleHandle(ti, self) ==
    LET new_status == ~self.is_done
    IN  [self |-> self,
         items |-> { IF x.id = self.id THEN [x EXCEPT !.is_done = new_status] ELSE x
                     : x \in ti }]

\* Faulty variant of TodoItem::toggle_done: is_done is set, never cleared.
TodoItem_toggle_done_AlwaysDone(ti, self) ==
    [self |-> [self EXCEPT !.is_done = TRUE],
     items |-> { IF x.id = self.id THEN [x EXCEPT !.is_done = TRUE] ELSE x : x \in ti }]

\* TodoItem::toggle_done: writes !self.is_done of the handle, then sets the handle.
TodoItem_toggle_done(ti, self) ==
    LET new_status == ~self.is_done
    IN  [self |-> [self EXCEPT !.is_done = new_status],
         items |-> { IF x.id = self.id THEN [x EXCEPT !.is_done = new_status] ELSE x
                     : x \in ti }]

\* Faulty variant of TodoItem::delete: WHERE list_id = ?1 in place of WHERE id = ?1.
TodoItem_delete_WholeList(ti, self) == { x \in ti : x.list_id # self.list_id }

\* TodoItem::delete
TodoItem_delete(ti, self) == { x \in ti : x.id # self.id }

\* Faulty variant of the SELECT of TodoItem::move_up: list_id = ?1 is missing.
SelectPrevItem_AnyList(ti, self) ==
    LET below == { x \in ti : x.ordering < self.ordering }
        top == { x \in below : \A y \in below : y.ordering <= x.ordering }
    IN  IF top = {} THEN { << >> } ELSE { << x >> : x \in top }

\* Faulty variant of the SELECT of TodoItem::move_up: ORDER BY ordering ASC.
SelectPrevItem_Lowest(ti, self) ==
    LET below == { x \in ti : x.list_id = self.list_id /\ x.ordering < self.ordering }
        top == { x \in below : \A y \in below : y.ordering >= x.ordering }
    IN  IF top = {} THEN { << >> } ELSE { << x >> : x \in top }

\* "SELECT id, ordering FROM todo_items WHERE list_id = ?1 AND ordering < ?2
\* ORDER BY ordering DESC LIMIT 1"
SelectPrevItem(ti, self) ==
    LET below == { x \in ti : x.list_id = self.list_id /\ x.ordering < self.ordering }
        top == { x \in below : \A y \in below : y.ordering <= x.ordering }
    IN  IF top = {} THEN { << >> } ELSE { << x >> : x \in top }

\* Faulty variant of the SELECT of TodoItem::move_down: ordering >= ?2.
SelectNextItem_Inclusive(ti, self) ==
    LET above == { x \in ti : x.list_id = self.list_id /\ x.ordering >= self.ordering }
        bottom == { x \in above : \A y \in above : y.ordering >= x.ordering }
    IN  IF bottom = {} THEN { << >> } ELSE { << x >> : x \in bottom }

\* "SELECT id, ordering FROM todo_items WHERE list_id = ?1 AND ordering > ?2
\*  ORDER BY ordering ASC LIMIT 1", fetch_optional.
SelectNextItem(ti, self) ==
    LET above == { x \in ti : x.list_id = self.list_id /\ x.ordering > self.ordering }
        bottom == { x \in above : \A y \in above : y.ordering >= x.ordering }
    IN  IF bottom = {} THEN { << >> } ELSE { << x >> : x \in bottom }

TodoItem_move_up(ti, self, prev_item) == SwapOrdering(ti, self, prev_item)

TodoItem_move_down(ti, self, next_item) == SwapOrdering(ti, self, next_item)

\* UIList::get_all: every list with its items, each with a default ListState.
UIList_get_all(tl, ti) ==
    LET ls == TodoList_get_all(tl)
    IN  [k \in 1..Len(ls) |->
            [list |-> ls[k], item_state |-> None,
             items |-> TodoItem_get_by_list_id(ti, ls[k].id)]]

\* UIList::update_items: re-fetch the items, keep item_state.
UIList_update_items(ui_list, ti) ==
    [ui_list EXCEPT !.items = TodoItem_get_by_list_id(ti, ui_list.list.id)]

\* ------------------------------------------- ui/components/items.rs

\* Vec indexing items[j] with a 0-based j.
At(seq, j) == seq[j + 1]

\* ListState::select_next, as ItemsComponent::select_next_item calls it:
\* selected.map_or(0, |i| i.saturating_add(1)), not clamped until the next render.
ItemsComponent_select_next_item(ui_list) ==
    [ui_list EXCEPT !.item_state =
        IF @ = None THEN 0 ELSE IF @ = USIZE_MAX THEN USIZE_MAX ELSE @ + 1]

\* ListState::select_previous: selected.map_or(usize::MAX, |i| i.saturating_sub(1)).
ItemsComponent_select_previous_item(ui_list) ==
    [ui_list EXCEPT !.item_state =
        IF @ = None THEN USIZE_MAX ELSE IF @ = 0 THEN 0 ELSE @ - 1]

ItemsComponent_remove_item_selection(ui_list) ==
    [ui_list EXCEPT !.item_state = None]

\* ListState::select_first
ItemsComponent_select_first_item(ui_list) ==
    [ui_list EXCEPT !.item_state = 0]

\* ListState::select_last stores usize::MAX; the render corrects it.
ItemsComponent_select_last_item(ui_list) ==
    [ui_list EXCEPT !.item_state = USIZE_MAX]

\* Faulty variant of ItemsComponent::render: a cursor past the end is kept.
ItemsComponent_render_NoClamp(ui_list) ==
    [ui_list EXCEPT !.item_state =
        IF Len(ui_list.items) = 0 THEN None ELSE @]

\* Faulty variant of ItemsComponent::render: the selection of an empty list stays.
ItemsComponent_render_NoClear(ui_list) ==
    [ui_list EXCEPT !.item_state =
        IF Len(ui_list.items) = 0 THEN @
        ELSE IF @ # None /\ @ >= Len(ui_list.items) THEN Len(ui_list.items) - 1
        ELSE @]

\* ItemsComponent::render hands item_state to the List widget, which clears the
\* selection of an empty list and pulls a selection past the end back to the last item.
ItemsComponent_render(ui_list) ==
    [ui_list EXCEPT !.item_state =
        IF Len(ui_list.items) = 0 THEN None
        ELSE IF @ # None /\ @ >= Len(ui_list.items) THEN Len(ui_list.items) - 1
        ELSE @]

\* ItemsComponent::toggle_item_done: toggles through the snapshot's own handle,
\* no re-fetch.  (Called with Some(j), j in range.)
ItemsComponent_toggle_item_done(ui_list, ti) ==
    LET j == ui_list.item_state
        r == TodoItem_toggle_done(ti, At(ui_list.items, j))
    IN  [ui_list |-> [ui_list EXCEPT !.items[j + 1] = r.self], items |-> r.items]

\* Faulty variant of ItemsComponent::create_item: the snapshot is not re-fetched.
ItemsComponent_create_item_NoRefresh(ui_list, name, ti, id) ==
    LET r == TodoItem_create(ti, id, ui_list.list.id, name)
    IN  [ui_list |-> ui_list, items |-> r.items, row |-> r.row]

\* ItemsComponent::create_item
ItemsComponent_create_item(ui_list, name, ti, id) ==
    LET r == TodoItem_create(ti, id, ui_list.list.id, name)
    IN  [ui_list |-> UIList_update_items(ui_list, r.items), items |-> r.items,
         row |-> r.row]

\* ItemsComponent::update_item (called with Some(j), j in range)
ItemsComponent_update_item(ui_list, name, ti) ==
    LET j == ui_list.item_state
        r == TodoItem_update_name(ti, At(ui_list.items, j), name)
    IN  [ui_list |-> UIList_update_items(ui_list, r.items), items |-> r.items]

\* Faulty variant of ItemsComponent::delete_selected_item: the selection is not adjusted.
ItemsComponent_delete_selected_item_NoRepair(ui_list, ti) ==
    LET db == TodoItem_delete(ti, At(ui_list.items, ui_list.item_state))
    IN  [ui_list |-> UIList_update_items(ui_list, db), items |-> db]

\* ItemsComponent::delete_selected_item (called with Some(j), j in range)
ItemsComponent_delete_selected_item(ui_list, ti) ==
    LET j == ui_list.item_state
        item == At(ui_list.items, j)
        db == TodoItem_delete(ti, item)
        fresh == UIList_update_items(ui_list, db)
        n == Len(fresh.items)
    IN  [ui_list |-> [fresh EXCEPT !.item_state =
                         IF n = 0 THEN None ELSE IF j >= n THEN n - 1 ELSE @],
         items |-> db]

\* Faulty variant of ItemsComponent::move_selected_item_up: the selection does not follow.
ItemsComponent_move_selected_item_up_NoFollow(ui_list, ti, prev_item) ==
    LET r == TodoItem_move_up(ti, At(ui_list.items, ui_list.item_state), prev_item)
    IN  [ui_list |-> UIList_update_items(ui_list, r.rows),
         items |-> r.rows, swapped |-> r.swapped, self |-> r.self,
         result |-> r.result]

\* ItemsComponent::move_selected_item_up (called with Some(j), j in range)
ItemsComponent_move_selected_item_up(ui_list, ti, prev_item) ==
    LET j == ui_list.item_state
        r == TodoItem_move_up(ti, At(ui_list.items, j), prev_item)
        fresh == UIList_update_items(ui_list, r.rows)
    IN  [ui_list |-> [fresh EXCEPT !.item_state = IF j > 0 THEN j - 1 ELSE @],
         items |-> r.rows, swapped |-> r.swapped, self |-> r.self,
         result |-> r.result]

\* Faulty variant of ItemsComponent::move_selected_item_down: j + 1 without the bound check.
ItemsComponent_move_selected_item_down_Unchecked(ui_list, ti, next_item) ==
    LET j == ui_list.item_state
        r == TodoItem_move_down(ti, At(ui_list.items, j), next_item)
        fresh == UIList_update_items(ui_list, r.rows)
    IN  [ui_list |-> [fresh EXCEPT !.item_state = j + 1],
         items |-> r.rows, swapped |-> r.swapped, self |-> r.self,
         result |-> r.result]

\* ItemsComponent::move_selected_item_down (called with Some(j), j in range)
ItemsComponent_move_selected_item_down(ui_list, ti, next_item) ==
    LET j == ui_list.item_state
        r == TodoItem_move_down(ti, At(ui_list.items, j), next_item)
        fresh == UIList_update_items(ui_list, r.rows)
    IN  [ui_list |-> [fresh EXCEPT !.item_state =
                         IF j + 1 < Len(fresh.items) THEN j + 1 ELSE @],
         items |-> r.rows, swapped |-> r.swapped, self |-> r.self,
         result |-> r.result]

\* ------------------------------------------- ui/components/lists.rs
\* ListsComponent keeps the snapshot and the list cursor.

\* ListsComponent::get_selected_list / get_selected_list_mut: Some(list) or None.
HasSelectedList == list_state # None /\ list_state < Len(lists)

SelectedList == At(lists, list_state)

\* The snapshot with the selected list replaced (writes through the &mut UIList).
WithSelectedList(ui_list) == [lists EXCEPT ![list_state + 1] = ui_list]

\* ListsComponent::select_next / select_previous / select_first / select_last:
\* one step or to the end, clamped to the snapshot.
\* Faulty variant of ListsComponent::select_next: past the last list it wraps to the first.
ListsComponent_select_next_Wraps(ls, sel) ==
    IF Len(ls) = 0 THEN sel
    ELSE IF sel = None THEN 0
    ELSE IF sel + 1 < Len(ls) THEN sel + 1 ELSE 0

ListsComponent_select_next(ls, sel) ==
    IF Len(ls) = 0 THEN sel
    ELSE IF sel = None THEN 0
    ELSE IF sel + 1 < Len(ls) THEN sel + 1 ELSE sel

ListsComponent_select_previous(ls, sel) ==
    IF Len(ls) = 0 THEN sel
    ELSE IF sel = None THEN Len(ls) - 1
    ELSE IF sel > 0 THEN sel - 1 ELSE sel

ListsComponent_select_first(ls, sel) == IF Len(ls) = 0 THEN sel ELSE 0

ListsComponent_select_last(ls, sel) == IF Len(ls) = 0 THEN sel ELSE Len(ls) - 1

\* ListsComponent::create_list: TodoList::create, then the full reload.
ListsComponent_create_list(tl, ti, id, name) ==
    LET r == TodoList_create(tl, id, name)
    IN  [db_lists |-> r.lists, lists |-> UIList_get_all(r.lists, ti), row |-> r.row]

\* ListsComponent::update_list: rename the selected list, then the full reload.
ListsComponent_update_list(ls, sel, tl, ti, name) ==
    LET r == TodoList_update_name(tl, At(ls, sel).list, name)
    IN  [db_lists |-> r.lists, lists |-> UIList_get_all(r.lists, ti)]

\* Faulty variant of ListsComponent::delete_selected_list_static: the cursor is
\* left where it was.
ListsComponent_delete_selected_list_NoRepair(ls, sel, tl, ti) ==
    LET r == TodoList_delete(tl, ti, At(ls, sel).list)
        fresh == UIList_get_all(r.lists, r.items)
    IN  [db_lists |-> r.lists, db_items |-> r.items, lists |-> fresh,
         list_state |-> sel]

\* ListsComponent::delete_selected_list_static: delete, reload, repair the cursor.
ListsComponent_delete_selected_list(ls, sel, tl, ti) ==
    LET r == TodoList_delete(tl, ti, At(ls, sel).list)
        fresh == UIList_get_all(r.lists, r.items)
        n == Len(fresh)
    IN  [db_lists |-> r.lists, db_items |-> r.items, lists |-> fresh,
         list_state |-> IF n = 0 THEN None ELSE IF sel >= n THEN n - 1 ELSE sel]

\* ListsComponent::move_selected_list_up: move, reload, follow the moved list.
ListsComponent_move_selected_list_up(ls, sel, tl, ti, prev_list) ==
    LET r == TodoList_move_up(tl, At(ls, sel).list, prev_list)
        fresh == UIList_get_all(r.rows, ti)
    IN  [db_lists |-> r.rows, lists |-> fresh, swapped |-> r.swapped,
         self |-> r.self, result |-> r.result,
         list_state |-> IF sel > 0 THEN sel - 1 ELSE sel]

\* ListsComponent::move_selected_list_down
ListsComponent_move_selected_list_down(ls, sel, tl, ti, next_list) ==
    LET r == TodoList_move_down(tl, At(ls, sel).list, next_list)
        fresh == UIList_get_all(r.rows, ti)
    IN  [db_lists |-> r.rows, lists |-> fresh, swapped |-> r.swapped,
         self |-> r.self, result |-> r.result,
         list_state |-> IF sel + 1 < Len(fresh) THEN sel + 1 ELSE sel]

\* ------------------------------------------------------ app/state.rs

\* InputState::new / clear
EmptyInput == [current_input |-> << >>, is_modifying |-> FALSE]

\* Faulty variant of the blank test: is_empty() without the trim().
IsBlank_NoTrim(text) == text = << >>

\* Faulty variant of the blank test: the negation is lost.
IsBlank_Inverted(text) == \E k \in 1..Len(text) : text[k] # " "

\* name.trim().is_empty()
IsBlank(text) == \A k \in 1..Len(text) : text[k] = " "

EditingScreens == {"AddList", "ModifyList", "AddItem", "ModifyItem", "AddDB"}

\* The name of the database the session starts with, and no one-shot request.
DefaultDb == << "d" >>

NoSessions == << >>

\* The storage, the snapshot and the cursors, and the screen, as an editing
\* screen found them when it was entered.
Entry ==
    [todo_lists |-> todo_lists, todo_items |-> todo_items, lists |-> lists,
     list_state |-> list_state, screen |-> current_screen]

\* What a storage call inside a handler gave back, for the history variable:
\* whether a move swapped, the handle afterwards (<< >> when the handler held
\* none) and Ok or Err.
NoOutcome == [swapped |-> FALSE, self |-> << >>, result |-> "Ok"]

MoveOutcome(r) == [swapped |-> r.swapped, self |-> << r.self >>, result |-> r.result]

\* The history variable while no key has been handled since the last draw.
NoIntent ==
    [op |-> "none", id |-> 0, j |-> None, out |-> NoOutcome,
     todo_lists |-> {}, todo_items |-> {}, lists |-> << >>, list_state |-> None,
     input |-> << >>, screen |-> "Main", config_dbs |-> << >>, entry |-> << >>,
     nav |-> "none"]

\* What the history variable records of a handled key: the intent, the record it
\* acted on, the cursor it found, the outcome, and the tables, the snapshot, the
\* list cursor, the input buffer, the screen and the configured databases as they
\* were before the key; for a key handled in an editing screen also the state
\* that screen was entered from.
Intent(op, id, j, out) ==
    [op |-> op, id |-> id, j |-> j, out |-> out,
     todo_lists |-> todo_lists, todo_items |-> todo_items,
     lists |-> lists, list_state |-> list_state,
     input |-> input_state.current_input, screen |-> current_screen,
     config_dbs |-> config_dbs,
     entry |-> IF current_screen \in EditingScreens THEN last.entry ELSE << Entry >>,
     nav |-> "none"]

\* The handler returns to the loop; the keys of the list and item screens leave
\* the configuration alone, and no other process has moved.
Handled(op, id, j, out) ==
    /\ pc' = "draw"
    /\ last' = Intent(op, id, j, out)
    /\ UNCHANGED <<config_dbs, sessions>>

\* The handler of a navigation key returns to the loop; the history keeps which
\* way the key went and the cursor it found.
HandledNav(op, nav, j) ==
    /\ pc' = "draw"
    /\ last' = [Intent(op, 0, j, NoOutcome) EXCEPT !.nav = nav]
    /\ UNCHANGED <<config_dbs, sessions>>

\* items[j] / lists[i] with an index past the end: the thread panics.
Panic ==
    /\ pc' = "panicked"
    /\ last' = Intent("panic", 0, None, NoOutcome)
    /\ UNCHANGED <<config_dbs, sessions>>

Init ==
    /\ todo_lists = {}
    /\ todo_items = {}
    /\ next_list_id = 1
    /\ next_item_id = 1
    /\ lists = << >>
    /\ list_state = None
    /\ current_screen = "Main"
    /\ input_state = EmptyInput
    /\ pc = "draw"
    /\ last = NoIntent
    /\ config_dbs = << DefaultDb >>
    /\ sessions = NoSessions

\* App::run: every pass of the loop draws the frame, then reads one key.
Draw ==
    /\ pc = "draw"
    /\ pc' = "key"
    /\ lists' = IF HasSelectedList
                THEN WithSelectedList(ItemsComponent_render(SelectedList))
                ELSE lists
    /\ last' = IF current_screen \in EditingScreens
               THEN [NoIntent EXCEPT !.entry = last.entry]
               ELSE NoIntent
    /\ UNCHANGED <<db_vars, list_state, current_screen, input_state, config_dbs,
                   sessions>>

\* ------------------------------------------------------ app/events.rs
\* EventHandler::handle_main_screen_key, one action per key.

InMain == pc = "key" /\ current_screen = "Main"

\* 'q'
KeyQuit ==
    /\ InMain
    /\ pc' = "exited"
    /\ last' = Intent("quit", 0, None, NoOutcome)
    /\ UNCHANGED <<db_vars, lists, list_state, current_screen, input_state,
                   config_dbs, sessions>>

\* 's', 'w', 'T', 'B': list navigation
KeySelectList ==
    /\ InMain
    /\ \E nav \in {"next", "previous", "first", "last"} :
          /\ list_state' =
                CASE nav = "next" -> ListsComponent_select_next(lists, list_state)
                  [] nav = "previous" -> ListsComponent_select_previous(lists, list_state)
                  [] nav = "first" -> ListsComponent_select_first(lists, list_state)
                  [] nav = "last" -> ListsComponent_select_last(lists, list_state)
          /\ HandledNav("select_list", nav, list_state)
    /\ UNCHANGED <<db_vars, lists, current_screen, input_state>>

\* 'A': App::enter_add_list_screen
KeyEnterAddList ==
    /\ InMain
    /\ current_screen' = "AddList"
    /\ input_state' = EmptyInput
    /\ Handled("enter_add_list", 0, None, NoOutcome)
    /\ UNCHANGED <<db_vars, lists, list_state>>

\* 'a': App::enter_add_item_screen
KeyEnterAddItem ==
    /\ InMain
    /\ current_screen' = "AddItem"
    /\ input_state' = EmptyInput
    /\ Handled("enter_add_item", 0, None, NoOutcome)
    /\ UNCHANGED <<db_vars, lists, list_state>>

\* 'C': App::enter_change_db_screen
KeyEnterChangeDb ==
    /\ InMain
    /\ current_screen' = "ChangeDB"
    /\ Handled("enter_change_db", 0, None, NoOutcome)
    /\ UNCHANGED <<db_vars, lists, list_state, input_state>>

\* Faulty variant of the 'M' arm: the screen is entered with no list selected too.
KeyEnterModifyList_Unguarded ==
    /\ InMain
    /\ current_screen' = "ModifyList"
    /\ input_state' = [current_input |-> IF HasSelectedList THEN SelectedList.list.name
                                         ELSE << >>,
                       is_modifying |-> TRUE]
    /\ Handled("enter_modify_list", 0, None, NoOutcome)
    /\ UNCHANGED <<db_vars, lists, list_state>>

\* 'M': App::enter_modify_list_screen, when a list is selected
KeyEnterModifyList ==
    /\ InMain
    /\ IF HasSelectedList
       THEN /\ current_screen' = "ModifyList"
            /\ input_state' = [current_input |-> SelectedList.list.name,
                               is_modifying |-> TRUE]
       ELSE UNCHANGED <<current_screen, input_state>>
    /\ Handled("enter_modify_list", 0, None, NoOutcome)
    /\ UNCHANGED <<db_vars, lists, list_state>>

\* 'm': App::enter_modify_item_screen, when a list and one of its items are selected
KeyEnterModifyItem ==
    /\ InMain
    /\ IF HasSelectedList /\ SelectedList.item_state # None
          /\ SelectedList.item_state < Len(SelectedList.items)
       THEN /\ current_screen' = "ModifyItem"
            /\ input_state' =
                  [current_input |-> At(SelectedList.items, SelectedList.item_state).name,
                   is_modifying |-> TRUE]
       ELSE UNCHANGED <<current_screen, input_state>>
    /\ Handled("enter_modify_item", 0, None, NoOutcome)
    /\ UNCHANGED <<db_vars, lists, list_state>>

\* 'D': ListsComponent::delete_selected_list_static
KeyDeleteList ==
    /\ InMain
    /\ IF HasSelectedList
       THEN LET r == ListsComponent_delete_selected_list(lists, list_state,
                                                         todo_lists, todo_items)
            IN  /\ todo_lists' = r.db_lists
                /\ todo_items' = r.db_items
                /\ lists' = r.lists
                /\ list_state' = r.list_state
                /\ Handled("delete_list", SelectedList.list.id, list_state, NoOutcome)
       ELSE /\ UNCHANGED <<todo_lists, todo_items, lists, list_state>>
            /\ Handled("delete_list", 0, None, NoOutcome)
    /\ UNCHANGED <<next_list_id, next_item_id, current_screen, input_state>>

\* Alt+'w': ListsComponent::move_selected_list_up
KeyMoveListUp ==
    /\ InMain
    /\ IF HasSelectedList
       THEN \E prev_list \in SelectPrevList(todo_lists, SelectedList.list) :
              LET r == ListsComponent_move_selected_list_up(
                           lists, list_state, todo_lists, todo_items, prev_list)
              IN  /\ todo_lists' = r.db_lists
                  /\ lists' = r.lists
                  /\ list_state' = r.list_state
                  /\ Handled("move_list_up", SelectedList.list.id, list_state, MoveOutcome(r))
       ELSE /\ UNCHANGED <<todo_lists, lists, list_state>>
            /\ Handled("move_list_up", 0, None, NoOutcome)
    /\ UNCHANGED <<todo_items, next_list_id, next_item_id, current_screen, input_state>>

\* Alt+'s': ListsComponent::move_selected_list_down
KeyMoveListDown ==
    /\ InMain
    /\ IF HasSelectedList
       THEN \E next_list \in SelectNextList(todo_lists, SelectedList.list) :
              LET r == ListsComponent_move_selected_list_down(
                           lists, list_state, todo_lists, todo_items, next_list)
              IN  /\ todo_lists' = r.db_lists
                  /\ lists' = r.lists
                  /\ list_state' = r.list_state
                  /\ Handled("move_list_down", SelectedList.list.id, list_state, MoveOutcome(r))
       ELSE /\ UNCHANGED <<todo_lists, lists, list_state>>
            /\ Handled("move_list_down", 0, None, NoOutcome)
    /\ UNCHANGED <<todo_items, next_list_id, next_item_id, current_screen, input_state>>

\* Item intents act when a list is selected and its item_state is Some(j);
\* items[j] panics when j is past the end of the snapshot.
ItemSelected == HasSelectedList /\ SelectedList.item_state # None

ItemInRange == SelectedList.item_state < Len(SelectedList.items)

SelectedItem == At(SelectedList.items, SelectedList.item_state)

\* Faulty variant of 'd': with no element cursor the first item is deleted.
KeyDeleteItem_FirstWhenNone ==
    /\ InMain
    /\ IF ItemSelected
       THEN IF ItemInRange
            THEN LET r == ItemsComponent_delete_selected_item(SelectedList, todo_items)
                 IN  /\ todo_items' = r.items
                     /\ lists' = WithSelectedList(r.ui_list)
                     /\ Handled("delete_item", SelectedItem.id,
                                SelectedList.item_state, NoOutcome)
            ELSE Panic /\ UNCHANGED <<todo_items, lists>>
       ELSE IF HasSelectedList /\ SelectedList.items # << >>
            THEN LET first == [SelectedList EXCEPT !.item_state = 0]
                     r == ItemsComponent_delete_selected_item(first, todo_items)
                 IN  /\ todo_items' = r.items
                     /\ lists' = WithSelectedList(r.ui_list)
                     /\ Handled("delete_item", At(first.items, 0).id, None, NoOutcome)
            ELSE /\ UNCHANGED <<todo_items, lists>>
                 /\ Handled("delete_item", 0, None, NoOutcome)
    /\ UNCHANGED <<todo_lists, next_list_id, next_item_id, list_state,
                   current_screen, input_state>>

\* 'd': ItemsComponent::delete_selected_item
KeyDeleteItem ==
    /\ InMain
    /\ IF ItemSelected
       THEN IF ItemInRange
            THEN LET r == ItemsComponent_delete_selected_item(SelectedList, todo_items)
                 IN  /\ todo_items' = r.items
                     /\ lists' = WithSelectedList(r.ui_list)
                     /\ Handled("delete_item", SelectedItem.id,
                                SelectedList.item_state, NoOutcome)
            ELSE Panic /\ UNCHANGED <<todo_items, lists>>
       ELSE /\ UNCHANGED <<todo_items, lists>>
            /\ Handled("delete_item", 0, None, NoOutcome)
    /\ UNCHANGED <<todo_lists, next_list_id, next_item_id, list_state,
                   current_screen, input_state>>

\* Enter: ItemsComponent::toggle_item_done
KeyToggleDone ==
    /\ InMain
    /\ IF ItemSelected
       THEN IF ItemInRange
            THEN LET r == ItemsComponent_toggle_item_done(SelectedList, todo_items)
                 IN  /\ todo_items' = r.items
                     /\ lists' = WithSelectedList(r.ui_list)
                     /\ Handled("toggle_done", SelectedItem.id,
                                SelectedList.item_state, NoOutcome)
            ELSE Panic /\ UNCHANGED <<todo_items, lists>>
       ELSE /\ UNCHANGED <<todo_items, lists>>
            /\ Handled("toggle_done", 0, None, NoOutcome)
    /\ UNCHANGED <<todo_lists, next_list_id, next_item_id, list_state,
                   current_screen, input_state>>

\* Alt+Up: ItemsComponent::move_selected_item_up
KeyMoveItemUp ==
    /\ InMain
    /\ IF ItemSelected
       THEN IF ItemInRange
            THEN \E prev_item \in SelectPrevItem(todo_items, SelectedItem) :
                   LET r == ItemsComponent_move_selected_item_up(
                                SelectedList, todo_items, prev_item)
                   IN  /\ todo_items' = r.items
                       /\ lists' = WithSelectedList(r.ui_list)
                       /\ Handled("move_item_up", SelectedItem.id,
                                  SelectedList.item_state, MoveOutcome(r))
            ELSE Panic /\ UNCHANGED <<todo_items, lists>>
       ELSE /\ UNCHANGED <<todo_items, lists>>
            /\ Handled("move_item_up", 0, None, NoOutcome)
    /\ UNCHANGED <<todo_lists, next_list_id, next_item_id, list_state,
                   current_screen, input_state>>

\* Alt+Down: ItemsComponent::move_selected_item_down
KeyMoveItemDown ==
    /\ InMain
    /\ IF ItemSelected
       THEN IF ItemInRange
            THEN \E next_item \in SelectNextItem(todo_items, SelectedItem) :
                   LET r == ItemsComponent_move_selected_item_down(
                                SelectedList, todo_items, next_item)
                   IN  /\ todo_items' = r.items
                       /\ lists' = WithSelectedList(r.ui_list)
                       /\ Handled("move_item_down", SelectedItem.id,
                                  SelectedList.item_state, MoveOutcome(r))
            ELSE Panic /\ UNCHANGED <<todo_items, lists>>
       ELSE /\ UNCHANGED <<todo_items, lists>>
            /\ Handled("move_item_down", 0, None, NoOutcome)
    /\ UNCHANGED <<todo_lists, next_list_id, next_item_id, list_state,
                   current_screen, input_state>>

\* Down, Up, Left, Right / 't', 'b': item navigation in the selected list
KeySelectItem ==
    /\ InMain
    /\ \E nav \in {"next", "previous", "none", "first", "last"} :
          /\ lists' =
                IF ~HasSelectedList THEN lists
                ELSE WithSelectedList(
                   CASE nav = "next" -> ItemsComponent_select_next_item(SelectedList)
                     [] nav = "previous" -> ItemsComponent_select_previous_item(SelectedList)
                     [] nav = "none" -> ItemsComponent_remove_item_selection(SelectedList)
                     [] nav = "first" -> ItemsComponent_select_first_item(SelectedList)
                     [] nav = "last" -> ItemsComponent_select_last_item(SelectedList))
          /\ HandledNav("select_item", nav,
                        IF HasSelectedList THEN SelectedList.item_state ELSE None)
    /\ UNCHANGED <<db_vars, list_state, current_screen, input_state>>

\* EventHandler::handle_add_or_modify_list_screen_key and
\* handle_add_or_modify_item_screen_key.

InEditing == pc = "key" /\ current_screen \in EditingScreens

\* Faulty variant of the exits: every editing screen is left for Main.
App_exit_without_saving_ToMain(screen) ==
    [current_screen |-> "Main", input_state |-> EmptyInput]

\* App::exit_add_or_modify_list_without_saving / exit_add_item_without_saving /
\* exit_add_db_without_saving: back to the screen the editing screen is entered
\* from, with an empty buffer.
App_exit_without_saving(screen) ==
    [current_screen |-> IF screen = "AddDB" THEN "ChangeDB" ELSE "Main",
     input_state |-> EmptyInput]

\* Esc
KeyEsc ==
    /\ InEditing
    /\ current_screen' = App_exit_without_saving(current_screen).current_screen
    /\ input_state' = App_exit_without_saving(current_screen).input_state
    /\ Handled("cancel", 0, None, NoOutcome)
    /\ UNCHANGED <<db_vars, lists, list_state>>

\* Char(value): InputState::add_char
KeyChar ==
    /\ InEditing
    /\ Len(input_state.current_input) < MaxInput
    /\ \E value \in Chars :
          input_state' = [input_state EXCEPT !.current_input = Append(@, value)]
    /\ Handled("add_char", 0, None, NoOutcome)
    /\ UNCHANGED <<db_vars, lists, list_state, current_screen>>

\* Backspace: InputState::remove_char_before_cursor
KeyBackspace ==
    /\ InEditing
    /\ input_state' = [input_state EXCEPT !.current_input =
                          IF Len(@) = 0 THEN @ ELSE SubSeq(@, 1, Len(@) - 1)]
    /\ Handled("remove_char", 0, None, NoOutcome)
    /\ UNCHANGED <<db_vars, lists, list_state, current_screen>>

\* Enter in the add / modify list screen
KeyCommitList ==
    /\ pc = "key" /\ current_screen \in {"AddList", "ModifyList"}
    /\ LET list_name == input_state.current_input
       IN  IF IsBlank(list_name)
           THEN /\ UNCHANGED <<db_vars, lists, list_state, current_screen, input_state>>
                /\ Handled("commit_blank", 0, None, NoOutcome)
           ELSE IF input_state.is_modifying
           THEN IF ~HasSelectedList
                THEN /\ UNCHANGED <<db_vars, lists, list_state>>
                     /\ current_screen' = "Main"
                     /\ input_state' = EmptyInput
                     /\ Handled("update_list", 0, None, NoOutcome)
                ELSE LET r == ListsComponent_update_list(lists, list_state, todo_lists,
                                                         todo_items, list_name)
                     IN  /\ todo_lists' = r.db_lists
                         /\ lists' = r.lists
                         /\ current_screen' = "Main"
                         /\ input_state' = EmptyInput
                         /\ Handled("update_list", SelectedList.list.id, list_state, NoOutcome)
                         /\ UNCHANGED <<todo_items, next_list_id, next_item_id, list_state>>
           ELSE /\ next_list_id <= MaxListId
                /\ LET r == ListsComponent_create_list(todo_lists, todo_items,
                                                       next_list_id, list_name)
                   IN  /\ todo_lists' = r.db_lists
                       /\ next_list_id' = next_list_id + 1
                       /\ lists' = r.lists
                       /\ list_state' = ListsComponent_select_last(r.lists, list_state)
                       /\ current_screen' = "Main"
                       /\ input_state' = EmptyInput
                       /\ Handled("create_list", r.row.id, list_state, NoOutcome)
                       /\ UNCHANGED <<todo_items, next_item_id>>

\* Enter in the add / modify item screen
KeyCommitItem ==
    /\ pc = "key" /\ current_screen \in {"AddItem", "ModifyItem"}
    /\ LET item_name == input_state.current_input
       IN  IF IsBlank(item_name) \/ ~HasSelectedList
           THEN /\ UNCHANGED <<db_vars, lists, list_state, current_screen, input_state>>
                /\ Handled(IF IsBlank(item_name) THEN "commit_blank" ELSE "commit_no_list",
                           0, None, NoOutcome)
           ELSE IF input_state.is_modifying
           THEN IF ItemSelected /\ ~ItemInRange
                THEN Panic /\ UNCHANGED <<db_vars, lists, list_state, current_screen,
                                          input_state>>
                ELSE LET r == IF ItemSelected
                              THEN ItemsComponent_update_item(SelectedList, item_name,
                                                              todo_items)
                              ELSE [ui_list |-> SelectedList, items |-> todo_items]
                     IN  /\ todo_items' = r.items
                         /\ lists' = WithSelectedList(r.ui_list)
                         /\ current_screen' = "Main"
                         /\ input_state' = EmptyInput
                         /\ Handled("update_item",
                                    IF ItemSelected THEN SelectedItem.id ELSE 0,
                                    SelectedList.item_state, NoOutcome)
                         /\ UNCHANGED <<todo_lists, next_list_id, next_item_id, list_state>>
           ELSE /\ next_item_id <= MaxItemId
                /\ LET r == ItemsComponent_create_item(SelectedList, item_name,
                                                       todo_items, next_item_id)
                   IN  /\ todo_items' = r.items
                       /\ next_item_id' = next_item_id + 1
                       /\ lists' = WithSelectedList(
                                      ItemsComponent_select_last_item(r.ui_list))
                       /\ current_screen' = "Main"
                       /\ input_state' = EmptyInput
                       /\ Handled("create_item", r.row.id, SelectedList.item_state, NoOutcome)
                       /\ UNCHANGED <<todo_lists, next_list_id, list_state>>

\* EventHandler::handle_change_db_screen_key.  The session follows one database:
\* of this screen's keys the model has the two that lead to and from the add
\* database screen, Esc and 'A'.

\* Esc: App::exit_change_db_without_saving
KeyExitChangeDb ==
    /\ pc = "key" /\ current_screen = "ChangeDB"
    /\ current_screen' = "Main"
    /\ Handled("exit_change_db", 0, None, NoOutcome)
    /\ UNCHANGED <<db_vars, lists, list_state, input_state>>

\* 'A': App::enter_add_db_screen
KeyEnterAddDb ==
    /\ pc = "key" /\ current_screen = "ChangeDB"
    /\ current_screen' = "AddDB"
    /\ input_state' = EmptyInput
    /\ Handled("enter_add_db", 0, None, NoOutcome)
    /\ UNCHANGED <<db_vars, lists, list_state>>

\* App::create_new_database(db_name, false): one more configured database; the
\* database in use and its tables are not touched.
App_create_new_database(dbs, db_name) == Append(dbs, db_name)

\* Enter in the add database screen (EventHandler::handle_add_db_screen_key)
KeyCommitDb ==
    /\ pc = "key" /\ current_screen = "AddDB"
    /\ LET db_name == input_state.current_input
       IN  IF IsBlank(db_name)
           THEN /\ UNCHANGED <<db_vars, lists, list_state, current_screen, input_state>>
                /\ Handled("commit_blank", 0, None, NoOutcome)
           ELSE /\ Len(config_dbs) < MaxDbs
                /\ config_dbs' = App_create_new_database(config_dbs, db_name)
                /\ current_screen' = "ChangeDB"
                /\ input_state' = EmptyInput
                /\ pc' = "draw"
                /\ last' = Intent("create_db", 0, None, NoOutcome)
                /\ UNCHANGED <<db_vars, lists, list_state, sessions>>

\* Faulty variant of the "_ => {}" arm: the key falls through to the list
\* navigation of the main screen.
KeyUnmatched_FallsThrough ==
    /\ pc = "key"
    /\ list_state' = ListsComponent_select_next(lists, list_state)
    /\ Handled("unmatched", 0, None, NoOutcome)
    /\ UNCHANGED <<db_vars, lists, current_screen, input_state>>

\* Every other key of every screen: the "_ => {}" arm.
KeyUnmatched ==
    /\ pc = "key"
    /\ Handled("unmatched", 0, None, NoOutcome)
    /\ UNCHANGED <<db_vars, lists, list_state, current_screen, input_state>>

Next ==
    \/ Draw
    \/ KeyQuit
    \/ KeySelectList
    \/ KeyEnterAddList
    \/ KeyEnterAddItem
    \/ KeyEnterModifyList
    \/ KeyEnterModifyItem
    \/ KeyDeleteList
    \/ KeyMoveListUp
    \/ KeyMoveListDown
    \/ KeyDeleteItem
    \/ KeyToggleDone
    \/ KeyMoveItemUp
    \/ KeyMoveItemDown
    \/ KeySelectItem
    \/ KeyEsc
    \/ KeyChar
    \/ KeyBackspace
    \/ KeyCommitList
    \/ KeyCommitItem
    \/ KeyEnterChangeDb
    \/ KeyExitChangeDb
    \/ KeyEnterAddDb
    \/ KeyCommitDb
    \/ KeyUnmatched

Spec == Init /\ [][Next]_vars

\* ------------------------------------------------------ storage failures
\* Every sqlx call can return Err, which "?" hands up to the key handler; the
\* handler prints it and returns.  One action per item intent, the failing call
\* chosen among the calls the intent makes.

FailedOutcome == [swapped |-> FALSE, self |-> << >>, result |-> "Err"]

\* TodoItem::move_up / move_down followed by UIList::update_items, one call failing:
\* the SELECT of the neighbor, the UPDATE of the neighbor, the UPDATE of the
\* record, or the re-fetch.  Gives the table the intent leaves behind.
MoveItemFailing(ti, self, neighbor, failing) ==
    CASE failing \in {"select", "update_neighbor"} -> ti
      [] failing = "update_self" -> UpdateOrdering(ti, self.ordering, neighbor[1].id)
      [] failing = "refresh" -> SwapOrdering(ti, self, neighbor).rows

\* Alt+Up, a storage call failing
KeyMoveItemUpFails ==
    /\ InMain
    /\ ItemSelected /\ ItemInRange
    /\ \E prev_item \in SelectPrevItem(todo_items, SelectedItem) :
       \E failing \in {"select", "update_neighbor", "update_self", "refresh"} :
          /\ failing \in {"update_neighbor", "update_self"} => prev_item # << >>
          /\ todo_items' = MoveItemFailing(todo_items, SelectedItem, prev_item, failing)
          /\ Handled("move_item_up", SelectedItem.id, SelectedList.item_state,
                     FailedOutcome)
    /\ UNCHANGED <<todo_lists, next_list_id, next_item_id, lists, list_state,
                   current_screen, input_state>>

\* Alt+Down, a storage call failing
KeyMoveItemDownFails ==
    /\ InMain
    /\ ItemSelected /\ ItemInRange
    /\ \E next_item \in SelectNextItem(todo_items, SelectedItem) :
       \E failing \in {"select", "update_neighbor", "update_self", "refresh"} :
          /\ failing \in {"update_neighbor", "update_self"} => next_item # << >>
          /\ todo_items' = MoveItemFailing(todo_items, SelectedItem, next_item, failing)
          /\ Handled("move_item_down", SelectedItem.id, SelectedList.item_state,
                     FailedOutcome)
    /\ UNCHANGED <<todo_lists, next_list_id, next_item_id, lists, list_state,
                   current_screen, input_state>>

\* 'd', the DELETE or the re-fetch failing
KeyDeleteItemFails ==
    /\ InMain
    /\ ItemSelected /\ ItemInRange
    /\ \E failing \in {"delete", "refresh"} :
          /\ todo_items' = IF failing = "delete" THEN todo_items
                           ELSE TodoItem_delete(todo_items, SelectedItem)
          /\ Handled("delete_item", SelectedItem.id, SelectedList.item_state,
                     FailedOutcome)
    /\ UNCHANGED <<todo_lists, next_list_id, next_item_id, lists, list_state,
                   current_screen, input_state>>

\* Faulty variant of the failing Enter in the modify item screen: the else branch
\* (back to Main, buffer cleared) runs after an Err as well.
KeyCommitItemFails_LeavesScreen ==
    /\ pc = "key" /\ current_screen \in {"AddItem", "ModifyItem"}
    /\ ~IsBlank(input_state.current_input)
    /\ input_state.is_modifying
    /\ ItemSelected /\ ItemInRange
    /\ \E failing \in {"update", "refresh"} :
          /\ todo_items' = IF failing = "update" THEN todo_items
                           ELSE TodoItem_update_name(todo_items, SelectedItem,
                                                     input_state.current_input).items
          /\ Handled("update_item", SelectedItem.id, SelectedList.item_state,
                     FailedOutcome)
    /\ current_screen' = "Main"
    /\ input_state' = EmptyInput
    /\ UNCHANGED <<todo_lists, next_list_id, next_item_id, lists, list_state>>

\* Enter in the modify item screen, the UPDATE of the name or the re-fetch
\* failing: the screen and the buffer stay.
KeyCommitItemFails ==
    /\ pc = "key" /\ current_screen \in {"AddItem", "ModifyItem"}
    /\ ~IsBlank(input_state.current_input)
    /\ input_state.is_modifying
    /\ ItemSelected /\ ItemInRange
    /\ \E failing \in {"update", "refresh"} :
          /\ todo_items' = IF failing = "update" THEN todo_items
                           ELSE TodoItem_update_name(todo_items, SelectedItem,
                                                     input_state.current_input).items
          /\ Handled("update_item", SelectedItem.id, SelectedList.item_state,
                     FailedOutcome)
    /\ UNCHANGED <<todo_lists, next_list_id, next_item_id, lists, list_state,
                   current_screen, input_state>>

\* The session after its first list was created and selected: the item intents
\* of that list, with and without a failing storage call.
InitFail ==
    LET r == ListsComponent_create_list({}, {}, 1, << "X" >>)
    IN  /\ todo_lists = r.db_lists
        /\ todo_items = {}
        /\ next_list_id = 2
        /\ next_item_id = 1
        /\ lists = r.lists
        /\ list_state = ListsComponent_select_last(r.lists, None)
        /\ current_screen = "Main"
        /\ input_state = EmptyInput
        /\ pc = "draw"
        /\ last = NoIntent
        /\ config_dbs = << DefaultDb >>
        /\ sessions = NoSessions

NextFail ==
    \/ Draw
    \/ KeySelectItem
    \/ KeyEnterAddItem
    \/ KeyEnterModifyItem
    \/ KeyDeleteItem
    \/ KeyToggleDone
    \/ KeyMoveItemUp
    \/ KeyMoveItemDown
    \/ KeyEsc
    \/ KeyChar
    \/ KeyBackspace
    \/ KeyCommitItem
    \/ KeyMoveItemUpFails
    \/ KeyMoveItemDownFails
    \/ KeyDeleteItemFails
    \/ KeyCommitItemFails

SpecFail == InitFail /\ [][NextFail]_vars

\* ------------------------------------------------------ two processes
\* Two processes on the same database file, each running one TodoItem operation
\* on the items of list 1.  The operations open no transaction, so every sqlx
\* statement is a step of its own and the statements of the two interleave.

Sessions == {1, 2}

ScopeItem(i) ==
    [id |-> i, list_id |-> 1, name |-> << "X" >>, is_done |-> FALSE, ordering |-> i]

\* One request: the operation, its handle (Some(row), read before either process
\* started; start keeps it as it was read) or the name to create, and the locals
\* of the running operation.
Request(op, self) ==
    [op |-> op, self |-> self, start |-> self, name |-> << "X" >>,
     pc |-> CASE op = "create" -> "select_max"
              [] op = "delete" -> "delete"
              [] OTHER -> "select",
     next_ordering |-> 0, neighbor |-> << >>, created |-> 0, raced |-> FALSE]

Requests(rows) ==
    {Request("create", << >>)}
       \cup { Request(op, << x >>) : op \in {"delete", "move_up", "move_down"},
                                      x \in rows }

InitCross ==
    \E n \in 0..MaxScope :
       LET rows == { ScopeItem(i) : i \in 1..n }
       IN  /\ todo_lists = { [id |-> 1, name |-> << "X" >>, ordering |-> 1] }
           /\ todo_items = rows
           /\ next_list_id = 2
           /\ next_item_id = n + 1
           /\ sessions \in [Sessions -> Requests(rows)]
           /\ last = [NoIntent EXCEPT !.op = "start", !.todo_items = rows]
           /\ lists = << >>
           /\ list_state = None
           /\ current_screen = "Main"
           /\ input_state = EmptyInput
           /\ pc = "draw"
           /\ config_dbs = << DefaultDb >>

\* A statement of s runs while the other process is between its statements.
Raced(s) ==
    \E o \in Sessions \ {s} :
       sessions[o].pc \in {"insert", "update_neighbor", "update_self"}

Step(s, rec) ==
    /\ sessions' = [sessions EXCEPT ![s] = [rec EXCEPT !.raced = @ \/ Raced(s)]]
    /\ UNCHANGED <<todo_lists, next_list_id, lists, list_state, current_screen,
                   input_state, pc, last, config_dbs>>

\* TodoItem::create, the SELECT COALESCE(MAX(ordering), 0) + 1
CrossSelectMax(s) ==
    /\ sessions[s].pc = "select_max"
    /\ Step(s, [sessions[s] EXCEPT
                  !.next_ordering = CoalesceMaxOrdering({ x \in todo_items : x.list_id = 1 }) + 1,
                  !.pc = "insert"])
    /\ UNCHANGED <<todo_items, next_item_id>>

\* TodoItem::create, the INSERT ... RETURNING
CrossInsert(s) ==
    /\ sessions[s].pc = "insert"
    /\ todo_items' = todo_items \cup
          { [id |-> next_item_id, list_id |-> 1, name |-> sessions[s].name,
             is_done |-> FALSE, ordering |-> sessions[s].next_ordering] }
    /\ next_item_id' = next_item_id + 1
    /\ Step(s, [sessions[s] EXCEPT !.created = next_item_id, !.pc = "done"])

\* TodoItem::delete
CrossDelete(s) ==
    /\ sessions[s].pc = "delete"
    /\ todo_items' = TodoItem_delete(todo_items, sessions[s].self[1])
    /\ Step(s, [sessions[s] EXCEPT !.pc = "done"])
    /\ UNCHANGED next_item_id

\* TodoItem::move_up / move_down, the SELECT of the neighbor
CrossSelectNeighbor(s) ==
    /\ sessions[s].pc = "select"
    /\ \E neighbor \in IF sessions[s].op = "move_up"
                        THEN SelectPrevItem(todo_items, sessions[s].self[1])
                        ELSE SelectNextItem(todo_items, sessions[s].self[1]) :
          Step(s, [sessions[s] EXCEPT
                     !.neighbor = neighbor,
                     !.pc = IF neighbor = << >> THEN "done" ELSE "update_neighbor"])
    /\ UNCHANGED <<todo_items, next_item_id>>

\* the first UPDATE: the neighbor takes self.ordering
CrossUpdateNeighbor(s) ==
    /\ sessions[s].pc = "update_neighbor"
    /\ todo_items' = UpdateOrdering(todo_items, sessions[s].self[1].ordering,
                                    sessions[s].neighbor[1].id)
    /\ Step(s, [sessions[s] EXCEPT !.pc = "update_self"])
    /\ UNCHANGED next_item_id

\* the second UPDATE: the record takes the neighbor's ordering; then self.ordering
CrossUpdateSelf(s) ==
    /\ sessions[s].pc = "update_self"
    /\ todo_items' = UpdateOrdering(todo_items, sessions[s].neighbor[1].ordering,
                                    sessions[s].self[1].id)
    /\ Step(s, [sessions[s] EXCEPT
                  !.self = << [@[1] EXCEPT !.ordering = sessions[s].neighbor[1].ordering] >>,
                  !.pc = "done"])
    /\ UNCHANGED next_item_id

NextCross ==
    \/ \E s \in Sessions : CrossSelectMax(s)
    \/ \E s \in Sessions : CrossInsert(s)
    \/ \E s \in Sessions : CrossDelete(s)
    \/ \E s \in Sessions : CrossSelectNeighbor(s)
    \/ \E s \in Sessions : CrossUpdateNeighbor(s)
    \/ \E s \in Sessions : CrossUpdateSelf(s)

SpecCross == InitCross /\ [][NextCross]_vars

\* ------------------------------------------------------------- cli/ops.rs
\* The one-shot operations: each invocation is a process that opens its own
\* pool, runs one operation and ends, by returning or by
\* std::process::exit(exitcode::DATAERR). Options are << >> (None) or << v >>.

\* The names and the list selectors an invocation can carry.
CliNames == { << >>, << "X" >>, << " " >> }

Opt(S) == { << >> } \cup { << v >> : v \in S }

\* What an operation gave back: Ok or the exit, the tables afterwards, and the
\* calls it made on the database, in order.
CliOutcome(result, tl, ti, calls) ==
    [result |-> result, todo_lists |-> tl, todo_items |-> ti, calls |-> calls]

\* The first list of TodoList::get_all whose name is list_name, as Option.
RECURSIVE FindByName(_, _)
FindByName(ls, list_name) ==
    IF ls = << >> THEN << >>
    ELSE IF Head(ls).name = list_name THEN << Head(ls) >>
    ELSE FindByName(Tail(ls), list_name)

\* Faulty variant of get_list_by_name_or_id: with both given, the id is used.
get_list_by_name_or_id_IdWins(tl, name, id) ==
    CASE id # << >> ->
           LET found == { x \in tl : x.id = id[1] }
           IN  [result |-> IF found = {} THEN "DATAERR" ELSE "Ok",
                list |-> IF found = {} THEN << >> ELSE << CHOOSE x \in found : TRUE >>,
                calls |-> << "get_db_pool", "TodoList::get_by_id" >>]
      [] id = << >> /\ name # << >> ->
           LET found == FindByName(TodoList_get_all(tl), name[1])
           IN  [result |-> IF found = << >> THEN "DATAERR" ELSE "Ok",
                list |-> found,
                calls |-> << "get_db_pool", "TodoList::get_all" >>]
      [] OTHER ->
           [result |-> "DATAERR", list |-> << >>, calls |-> << "get_db_pool" >>]

\* Faulty variant of get_list_by_name_or_id: the loop over get_all keeps the
\* last list of that name instead of returning the first.
get_list_by_name_or_id_LastMatch(tl, name, id) ==
    CASE id # << >> /\ name = << >> ->
           LET found == { x \in tl : x.id = id[1] }
           IN  [result |-> IF found = {} THEN "DATAERR" ELSE "Ok",
                list |-> IF found = {} THEN << >> ELSE << CHOOSE x \in found : TRUE >>,
                calls |-> << "get_db_pool", "TodoList::get_by_id" >>]
      [] id = << >> /\ name # << >> ->
           LET ls == TodoList_get_all(tl)
               at == { k \in 1..Len(ls) : ls[k].name = name[1] }
           IN  [result |-> IF at = {} THEN "DATAERR" ELSE "Ok",
                list |-> IF at = {} THEN << >>
                         ELSE << ls[CHOOSE k \in at : \A l \in at : l <= k] >>,
                calls |-> << "get_db_pool", "TodoList::get_all" >>]
      [] OTHER ->
           [result |-> "DATAERR", list |-> << >>, calls |-> << "get_db_pool" >>]

\* get_list_by_name_or_id: the pool is opened, then (id, name) is matched:
\* by id, by name (first match of get_all), and exit when both or neither are
\* given or when no list is found.
get_list_by_name_or_id(tl, name, id) ==
    CASE id # << >> /\ name = << >> ->
           LET found == { x \in tl : x.id = id[1] }
           IN  [result |-> IF found = {} THEN "DATAERR" ELSE "Ok",
                list |-> IF found = {} THEN << >> ELSE << CHOOSE x \in found : TRUE >>,
                calls |-> << "get_db_pool", "TodoList::get_by_id" >>]
      [] id = << >> /\ name # << >> ->
           LET found == FindByName(TodoList_get_all(tl), name[1])
           IN  [result |-> IF found = << >> THEN "DATAERR" ELSE "Ok",
                list |-> found,
                calls |-> << "get_db_pool", "TodoList::get_all" >>]
      [] OTHER ->
           [result |-> "DATAERR", list |-> << >>, calls |-> << "get_db_pool" >>]

\* Faulty variant of add_list: a blank name is turned away.
add_list_RejectsBlank(tl, ti, id, name) ==
    IF IsBlank(name)
    THEN CliOutcome("DATAERR", tl, ti, << >>)
    ELSE CliOutcome("Ok", TodoList_create(tl, id, name).lists, ti,
                    << "get_db_pool", "TodoList::create" >>)

\* add_list: opens the pool and creates the list with the name as given.
add_list(tl, ti, id, name) ==
    CliOutcome("Ok", TodoList_create(tl, id, name).lists, ti,
               << "get_db_pool", "TodoList::create" >>)

\* delete_list: opens the pool, looks the list up, deletes it.
delete_list(tl, ti, name, id) ==
    LET target == get_list_by_name_or_id(tl, name, id)
        calls == << "get_db_pool" >> \o target.calls
    IN  IF target.result # "Ok"
        THEN CliOutcome(target.result, tl, ti, calls)
        ELSE LET d == TodoList_delete(tl, ti, target.list[1])
             IN  CliOutcome("Ok", d.lists, d.items, Append(calls, "TodoList::delete"))

\* Faulty variant of add_item: the item goes to the first list of get_all,
\* whichever list the selector named.
add_item_FirstList(tl, ti, item_id, name, list_id, list_name) ==
    LET target == get_list_by_name_or_id(tl, list_name, list_id)
        calls == << "get_db_pool" >> \o target.calls
    IN  IF target.result # "Ok"
        THEN CliOutcome(target.result, tl, ti, calls)
        ELSE CliOutcome("Ok", tl,
                        TodoItem_create(ti, item_id, TodoList_get_all(tl)[1].id, name).items,
                        Append(calls, "TodoItem::create"))

\* add_item: opens the pool, looks the list up, creates the item in it with the
\* name as given.
add_item(tl, ti, item_id, name, list_id, list_name) ==
    LET target == get_list_by_name_or_id(tl, list_name, list_id)
        calls == << "get_db_pool" >> \o target.calls
    IN  IF target.result # "Ok"
        THEN CliOutcome(target.result, tl, ti, calls)
        ELSE CliOutcome("Ok", tl,
                        TodoItem_create(ti, item_id, target.list[1].id, name).items,
                        Append(calls, "TodoItem::create"))

\* Faulty variant of delete_item: an absent id is passed over with Ok.
delete_item_OkWhenMissing(tl, ti, id) ==
    LET found == { x \in ti : x.id = id }
        calls == << "get_db_pool", "TodoItem::get_by_id" >>
    IN  IF found = {}
        THEN CliOutcome("Ok", tl, ti, calls)
        ELSE CliOutcome("Ok", tl, TodoItem_delete(ti, CHOOSE x \in found : TRUE),
                        Append(calls, "TodoItem::delete"))

\* delete_item: opens the pool, reads the item by id, deletes it or exits.
delete_item(tl, ti, id) ==
    LET found == { x \in ti : x.id = id }
        calls == << "get_db_pool", "TodoItem::get_by_id" >>
    IN  IF found = {}
        THEN CliOutcome("DATAERR", tl, ti, calls)
        ELSE CliOutcome("Ok", tl, TodoItem_delete(ti, CHOOSE x \in found : TRUE),
                        Append(calls, "TodoItem::delete"))

\* toggle_done_item: opens the pool, reads the item by id, toggles it or exits.
toggle_done_item(tl, ti, id) ==
    LET found == { x \in ti : x.id = id }
        calls == << "get_db_pool", "TodoItem::get_by_id" >>
    IN  IF found = {}
        THEN CliOutcome("DATAERR", tl, ti, calls)
        ELSE CliOutcome("Ok", tl,
                        TodoItem_toggle_done(ti, CHOOSE x \in found : TRUE).items,
                        Append(calls, "TodoItem::toggle_done"))

\* The history variable of an invocation: the operation and its arguments, the
\* tables it found, and what it gave back.
CliRequest(op, name, list_name, list_id, id, out) ==
    [op |-> op, name |-> name, list_name |-> list_name, list_id |-> list_id,
     id |-> id, out |-> out, todo_lists |-> todo_lists, todo_items |-> todo_items]

\* One invocation ran to its end: the tables are what it left, and the ids the
\* tables hand out advance with the rows inserted.
CliRan(op, name, list_name, list_id, id, out) ==
    /\ todo_lists' = out.todo_lists
    /\ todo_items' = out.todo_items
    /\ next_list_id' = IF out.todo_lists \ todo_lists # {} THEN next_list_id + 1
                       ELSE next_list_id
    /\ next_item_id' = IF out.todo_items \ todo_items # {}
                          /\ Len(out.calls) > 0
                          /\ out.calls[Len(out.calls)] = "TodoItem::create"
                       THEN next_item_id + 1 ELSE next_item_id
    /\ last' = CliRequest(op, name, list_name, list_id, id, out)
    /\ UNCHANGED <<lists, list_state, current_screen, input_state, pc, config_dbs,
                   sessions>>

CliAddList ==
    /\ pc = "cli"
    /\ next_list_id <= MaxListId
    /\ \E name \in CliNames :
          CliRan("add_list", name, << >>, << >>, 0,
                 add_list(todo_lists, todo_items, next_list_id, name))

CliDeleteList ==
    /\ pc = "cli"
    /\ \E name \in Opt(CliNames), id \in Opt(1..MaxListId) :
          CliRan("delete_list", << >>, name, id, 0,
                 delete_list(todo_lists, todo_items, name, id))

CliAddItem ==
    /\ pc = "cli"
    /\ next_item_id <= MaxItemId
    /\ \E name \in CliNames, list_name \in Opt(CliNames), list_id \in Opt(1..MaxListId) :
          CliRan("add_item", name, list_name, list_id, 0,
                 add_item(todo_lists, todo_items, next_item_id, name, list_id, list_name))

CliDeleteItem ==
    /\ pc = "cli"
    /\ \E id \in 1..MaxItemId :
          CliRan("delete_item", << >>, << >>, << >>, id,
                 delete_item(todo_lists, todo_items, id))

CliToggleDone ==
    /\ pc = "cli"
    /\ \E id \in 1..MaxItemId :
          CliRan("toggle_done_item", << >>, << >>, << >>, id,
                 toggle_done_item(todo_lists, todo_items, id))

\* The database of a fresh configuration, before the first invocation.
InitCli ==
    /\ todo_lists = {}
    /\ todo_items = {}
    /\ next_list_id = 1
    /\ next_item_id = 1
    /\ lists = << >>
    /\ list_state = None
    /\ current_screen = "Main"
    /\ input_state = EmptyInput
    /\ pc = "cli"
    /\ last = CliRequest("none", << >>, << >>, << >>, 0, CliOutcome("Ok", {}, {}, << >>))
    /\ config_dbs = << DefaultDb >>
    /\ sessions = NoSessions

NextCli ==
    \/ CliAddList
    \/ CliDeleteList
    \/ CliAddItem
    \/ CliDeleteItem
    \/ CliToggleDone

SpecCli == InitCli /\ [][NextCli]_vars

\* ------------------------------------------ one-shot operations, counted
\* The one-shot operations again, with a history that counts, per item, the
\* toggle_done_item calls that returned Ok and, per list, the add_item calls
\* that targeted it and the delete_item calls that took an item from it.

MaxToggles == 3

ListNames == { << "X" >>, << >> }

ItemName == << "X" >>

NoTally ==
    [toggles |-> [i \in 1..MaxItemId |-> 0],
     added |-> [l \in 1..MaxListId |-> 0],
     deleted |-> [l \in 1..MaxListId |-> 0]]

\* The counts after one invocation: target is the list the lookup gave
\* (add_item) or the list of the item read by id (delete_item), as Option.
Tally(t, op, id, target, out) ==
    IF out.result # "Ok" THEN t
    ELSE CASE op = "toggle_done_item" -> [t EXCEPT !.toggles[id] = @ + 1]
           [] op = "add_item" -> [t EXCEPT !.added[target[1]] = @ + 1]
           [] op = "delete_item" -> [t EXCEPT !.deleted[target[1]] = @ + 1]
           [] OTHER -> t

\* The history of a counted invocation: the request and the counts so far.
TallyRequest(op, name, list_name, list_id, id, out, target) ==
    [op |-> op, name |-> name, list_name |-> list_name, list_id |-> list_id,
     id |-> id, out |-> out, todo_lists |-> todo_lists, todo_items |-> todo_items,
     tally |-> Tally(last.tally, op, id, target, out)]

TallyRan(op, name, list_name, list_id, id, out, target) ==
    /\ todo_lists' = out.todo_lists
    /\ todo_items' = out.todo_items
    /\ next_list_id' = IF op = "add_list" /\ out.result = "Ok" THEN next_list_id + 1
                       ELSE next_list_id
    /\ next_item_id' = IF op = "add_item" /\ out.result = "Ok" THEN next_item_id + 1
                       ELSE next_item_id
    /\ last' = TallyRequest(op, name, list_name, list_id, id, out, target)
    /\ UNCHANGED <<lists, list_state, current_screen, input_state, pc, config_dbs,
                   sessions>>

TallyAddList ==
    /\ pc = "cli"
    /\ next_list_id <= MaxListId
    /\ \E name \in ListNames :
          TallyRan("add_list", name, << >>, << >>, 0,
                   add_list(todo_lists, todo_items, next_list_id, name), << >>)

TallyDeleteList ==
    /\ pc = "cli"
    /\ \E id \in 1..MaxListId :
          TallyRan("delete_list", << >>, << >>, << id >>, 0,
                   delete_list(todo_lists, todo_items, << >>, << id >>), << >>)

\* The id of the list the lookup of the selector gives, as Option.
TargetOf(tl, list_name, list_id) ==
    LET target == get_list_by_name_or_id(tl, list_name, list_id)
    IN  IF target.result = "Ok" THEN << target.list[1].id >> ELSE << >>

TallyAddItem ==
    /\ pc = "cli"
    /\ next_item_id <= MaxItemId
    /\ \E list_name \in Opt(ListNames), list_id \in Opt(1..MaxListId) :
          TallyRan("add_item", ItemName, list_name, list_id, 0,
                   add_item(todo_lists, todo_items, next_item_id, ItemName,
                            list_id, list_name),
                   TargetOf(todo_lists, list_name, list_id))

TallyDeleteItem ==
    /\ pc = "cli"
    /\ \E id \in 1..MaxItemId :
          TallyRan("delete_item", << >>, << >>, << >>, id,
                   delete_item(todo_lists, todo_items, id),
                   IF \E x \in todo_items : x.id = id
                   THEN << (CHOOSE x \in todo_items : x.id = id).list_id >>
                   ELSE << >>)

TallyToggleDone ==
    /\ pc = "cli"
    /\ \E id \in 1..MaxItemId :
          /\ last.tally.toggles[id] < MaxToggles
          /\ TallyRan("toggle_done_item", << >>, << >>, << >>, id,
                      toggle_done_item(todo_lists, todo_items, id), << >>)

InitTally ==
    /\ todo_lists = {}
    /\ todo_items = {}
    /\ next_list_id = 1
    /\ next_item_id = 1
    /\ lists = << >>
    /\ list_state = None
    /\ current_screen = "Main"
    /\ input_state = EmptyInput
    /\ pc = "cli"
    /\ last = [op |-> "none", name |-> << >>, list_name |-> << >>, list_id |-> << >>,
               id |-> 0, out |-> CliOutcome("Ok", {}, {}, << >>),
               todo_lists |-> {}, todo_items |-> {}, tally |-> NoTally]
    /\ config_dbs = << DefaultDb >>
    /\ sessions = NoSessions

NextTally ==
    \/ TallyAddList
    \/ TallyDeleteList
    \/ TallyAddItem
    \/ TallyDeleteItem
    \/ TallyToggleDone

SpecTally == InitTally /\ [][NextTally]_vars

\* ---------------------------------------------- db/ops.rs, one handle
\* A caller that holds one TodoList and one TodoItem of it in memory and calls
\* update_name, toggle_done, move_up and move_down on them, any statement of a
\* call failing or none; the order keys of the list have the gaps deletions
\* left.

MaxOrderKey == 4

\* Faulty variant of TryUpdateName: the name is set in memory before the UPDATE
\* is awaited.
TryUpdateName_WriteBehind(rows, self, new_name, failing) ==
    IF failing = "update"
    THEN [rows |-> rows, self |-> [self EXCEPT !.name = new_name], result |-> "Err"]
    ELSE [rows |-> { IF x.id = self.id THEN [x EXCEPT !.name = new_name] ELSE x
                     : x \in rows },
          self |-> [self EXCEPT !.name = new_name], result |-> "Ok"]

\* TodoList::update_name / TodoItem::update_name: the UPDATE ... WHERE id = ?3,
\* `?` on its result, then self.name = new_name.
TryUpdateName(rows, self, new_name, failing) ==
    IF failing = "update"
    THEN [rows |-> rows, self |-> self, result |-> "Err"]
    ELSE [rows |-> { IF x.id = self.id THEN [x EXCEPT !.name = new_name] ELSE x
                     : x \in rows },
          self |-> [self EXCEPT !.name = new_name], result |-> "Ok"]

\* TodoItem::toggle_done: the UPDATE, `?` on its result, then self.is_done.
TryToggleDone(rows, self, failing) ==
    IF failing = "update"
    THEN [rows |-> rows, self |-> self, result |-> "Err"]
    ELSE LET r == TodoItem_toggle_done(rows, self)
         IN  [rows |-> r.items, self |-> r.self, result |-> "Ok"]

\* TodoItem::move_up / move_down given what the SELECT returns: the SELECT, the
\* UPDATE of the neighbor, the UPDATE of the record, each with `?`, then
\* self.ordering.
TryMove(rows, self, neighbor, failing) ==
    IF failing = "none"
    THEN SwapOrdering(rows, self, neighbor)
    ELSE [rows |-> MoveItemFailing(rows, self, neighbor, failing), self |-> self,
          swapped |-> FALSE, result |-> "Err"]

\* The items of list 1 with the ids 1..n and the order keys keys, ascending.
RECURSIVE KeyedItems(_, _)
KeyedItems(keys, n) ==
    IF keys = {} THEN {}
    ELSE LET top == CHOOSE k \in keys : \A l \in keys : l <= k
         IN  KeyedItems(keys \ {top}, n - 1)
                \cup { [id |-> n, list_id |-> 1, name |-> << "X" >>, is_done |-> FALSE,
                        ordering |-> top] }

\* The ids of a table in ascending order of the order keys.
IdsInOrder(rows) ==
    LET s == OrderByOrdering(rows) IN [k \in 1..Len(s) |-> s[k].id]

\* The position of an id in a sequence of distinct ids.
PositionOf(s, id) == CHOOSE k \in 1..Len(s) : s[k] = id

MaxStreak == 3

MoveOps == {"move_up", "move_down"}

NoStreak == [op |-> "none", k |-> 0, from |-> 0]

\* The run of successful moves in one direction the last call belongs to: how
\* many there were (counted up to MaxStreak, then anew) and the position, in
\* ascending order of the keys, the record had before the first of them.
Streak(op, before, result) ==
    IF op \notin MoveOps \/ result # "Ok" THEN NoStreak
    ELSE IF last.streak.op = op /\ last.streak.k < MaxStreak
         THEN [last.streak EXCEPT !.k = @ + 1]
         ELSE [op |-> op, k |-> 1,
               from |-> PositionOf(IdsInOrder(todo_items), before.id)]

\* What the caller holds and what its last call did: the item and the list in
\* memory before and after, the table before, the neighbor the SELECT gave and
\* the result.
HandleState(op, before, self, list_before, list, neighbor, result) ==
    [op |-> op, before |-> before, self |-> self, list_before |-> list_before,
     list |-> list, neighbor |-> neighbor, result |-> result,
     todo_lists |-> todo_lists, todo_items |-> todo_items,
     streak |-> Streak(op, before, result)]

HandleUnchanged ==
    UNCHANGED <<next_list_id, next_item_id, lists, list_state, current_screen,
                input_state, pc, config_dbs, sessions>>

InitHandle ==
    \E keys \in SUBSET (1..MaxOrderKey) :
       /\ keys # {} /\ Cardinality(keys) <= MaxScope
       /\ LET n == Cardinality(keys)
              the_list == [id |-> 1, name |-> << "X" >>, ordering |-> 1]
          IN  /\ todo_lists = { the_list }
              /\ todo_items = KeyedItems(keys, n)
              /\ next_list_id = 2
              /\ next_item_id = n + 1
              /\ \E self \in KeyedItems(keys, n) :
                    last = [op |-> "get", before |-> self, self |-> self,
                            list_before |-> the_list, list |-> the_list,
                            neighbor |-> << >>, result |-> "Ok",
                            todo_lists |-> { the_list },
                            todo_items |-> KeyedItems(keys, n),
                            streak |-> NoStreak]
       /\ lists = << >>
       /\ list_state = None
       /\ current_screen = "Main"
       /\ input_state = EmptyInput
       /\ pc = "call"
       /\ config_dbs = << DefaultDb >>
       /\ sessions = NoSessions

HandleUpdateName ==
    /\ pc = "call"
    /\ \E new_name \in ListNames, failing \in {"none", "update"} :
          LET r == TryUpdateName(todo_items, last.self, new_name, failing)
          IN  /\ todo_items' = r.rows
              /\ last' = HandleState("update_name", last.self, r.self, last.list,
                                     last.list, << >>, r.result)
    /\ UNCHANGED todo_lists
    /\ HandleUnchanged

HandleListUpdateName ==
    /\ pc = "call"
    /\ \E new_name \in ListNames, failing \in {"none", "update"} :
          LET r == TryUpdateName(todo_lists, last.list, new_name, failing)
          IN  /\ todo_lists' = r.rows
              /\ last' = HandleState("list_update_name", last.self, last.self,
                                     last.list, r.self, << >>, r.result)
    /\ UNCHANGED todo_items
    /\ HandleUnchanged

HandleToggleDone ==
    /\ pc = "call"
    /\ \E failing \in {"none", "update"} :
          LET r == TryToggleDone(todo_items, last.self, failing)
          IN  /\ todo_items' = r.rows
              /\ last' = HandleState("toggle_done", last.self, r.self, last.list,
                                     last.list, << >>, r.result)
    /\ UNCHANGED todo_lists
    /\ HandleUnchanged

HandleMoveUp ==
    /\ pc = "call"
    /\ \E prev_item \in SelectPrevItem(todo_items, last.self) :
       \E failing \in {"none", "select", "update_neighbor", "update_self"} :
          /\ failing \in {"update_neighbor", "update_self"} => prev_item # << >>
          /\ LET r == TryMove(todo_items, last.self, prev_item, failing)
             IN  /\ todo_items' = r.rows
                 /\ last' = HandleState("move_up", last.self, r.self, last.list,
                                        last.list, prev_item, r.result)
    /\ UNCHANGED todo_lists
    /\ HandleUnchanged

HandleMoveDown ==
    /\ pc = "call"
    /\ \E next_item \in SelectNextItem(todo_items, last.self) :
       \E failing \in {"none", "select", "update_neighbor", "update_self"} :
          /\ failing \in {"update_neighbor", "update_self"} => next_item # << >>
          /\ LET r == TryMove(todo_items, last.self, next_item, failing)
             IN  /\ todo_items' = r.rows
                 /\ last' = HandleState("move_down", last.self, r.self, last.list,
                                        last.list, next_item, r.result)
    /\ UNCHANGED todo_lists
    /\ HandleUnchanged

NextHandle ==
    \/ HandleUpdateName
    \/ HandleListUpdateName
    \/ HandleToggleDone
    \/ HandleMoveUp
    \/ HandleMoveDown

SpecHandle == InitHandle /\ [][NextHandle]_vars

\* ------------------------------------------------------------ failing commits
\* The editing screens with a storage call of the commit failing: the arm prints
\* the error and runs neither the screen change nor the clear of its else branch.

\* Enter in the add / modify list screen, ListsComponent::create_list or
\* update_list returning Err: the INSERT / UPDATE failed, or the re-fetch after it.
KeyCommitListFails ==
    /\ pc = "key" /\ current_screen \in {"AddList", "ModifyList"}
    /\ ~IsBlank(input_state.current_input)
    /\ IF input_state.is_modifying
       THEN /\ HasSelectedList
            /\ \E failing \in {"update", "refresh"} :
                  todo_lists' = IF failing = "update" THEN todo_lists
                                ELSE TodoList_update_name(todo_lists, SelectedList.list,
                                                          input_state.current_input).lists
            /\ Handled("update_list", SelectedList.list.id, list_state, FailedOutcome)
            /\ UNCHANGED next_list_id
       ELSE /\ \E failing \in {"insert", "refresh"} :
                  IF failing = "insert"
                  THEN UNCHANGED <<todo_lists, next_list_id>>
                  ELSE /\ next_list_id <= MaxListId
                       /\ todo_lists' = TodoList_create(todo_lists, next_list_id,
                                                        input_state.current_input).lists
                       /\ next_list_id' = next_list_id + 1
            /\ Handled("create_list", 0, list_state, FailedOutcome)
    /\ UNCHANGED <<todo_items, next_item_id, lists, list_state, current_screen,
                   input_state>>

\* Enter in the add item screen, ItemsComponent::create_item returning Err: the
\* INSERT failed, or the re-fetch after it.
KeyCreateItemFails ==
    /\ pc = "key" /\ current_screen \in {"AddItem", "ModifyItem"}
    /\ ~IsBlank(input_state.current_input)
    /\ HasSelectedList
    /\ ~input_state.is_modifying
    /\ \E failing \in {"insert", "refresh"} :
          IF failing = "insert"
          THEN UNCHANGED <<todo_items, next_item_id>>
          ELSE /\ next_item_id <= MaxItemId
               /\ todo_items' = TodoItem_create(todo_items, next_item_id,
                                                SelectedList.list.id,
                                                input_state.current_input).items
               /\ next_item_id' = next_item_id + 1
    /\ Handled("create_item", 0, SelectedList.item_state, FailedOutcome)
    /\ UNCHANGED <<todo_lists, next_list_id, lists, list_state, current_screen,
                   input_state>>

\* Enter in the add database screen, App::create_new_database returning Err,
\* before or after the database was added to the configuration.
KeyCommitDbFails ==
    /\ pc = "key" /\ current_screen = "AddDB"
    /\ ~IsBlank(input_state.current_input)
    /\ \E added \in BOOLEAN :
          IF added
          THEN /\ Len(config_dbs) < MaxDbs
               /\ config_dbs' = App_create_new_database(config_dbs,
                                                        input_state.current_input)
          ELSE UNCHANGED config_dbs
    /\ pc' = "draw"
    /\ last' = Intent("create_db", 0, None, FailedOutcome)
    /\ UNCHANGED <<db_vars, lists, list_state, current_screen, input_state, sessions>>

NextCommit ==
    \/ Draw
    \/ KeySelectList
    \/ KeySelectItem
    \/ KeyEnterAddList
    \/ KeyEnterModifyList
    \/ KeyEnterAddItem
    \/ KeyEnterModifyItem
    \/ KeyEnterChangeDb
    \/ KeyExitChangeDb
    \/ KeyEnterAddDb
    \/ KeyEsc
    \/ KeyChar
    \/ KeyBackspace
    \/ KeyCommitList
    \/ KeyCommitItem
    \/ KeyCommitDb
    \/ KeyCommitListFails
    \/ KeyCreateItemFails
    \/ KeyCommitItemFails
    \/ KeyCommitDbFails

SpecCommit == Init /\ [][NextCommit]_vars

\* ------------------------------------------------------------ another session
\* The interactive session on a database that one-shot invocations of the
\* program (cli/ops.rs) write to while it is waiting for a key. The handlers of
\* the interactive session are taken whole here; the statements of two processes
\* are interleaved in SpecCross.

\* The interactive session has added a list and two items to it.
InitStale ==
    LET l == ListsComponent_create_list({}, {}, 1, << "X" >>)
        one == ItemsComponent_create_item(At(l.lists, 0), << "X" >>, {}, 1)
        two == ItemsComponent_create_item(one.ui_list, << "X" >>, one.items, 2)
    IN  /\ todo_lists = l.db_lists
        /\ todo_items = two.items
        /\ next_list_id = 2
        /\ next_item_id = 3
        /\ lists = << ItemsComponent_select_last_item(two.ui_list) >>
        /\ list_state = ListsComponent_select_last(l.lists, None)
        /\ current_screen = "Main"
        /\ input_state = EmptyInput
        /\ pc = "draw"
        /\ last = NoIntent
        /\ config_dbs = << DefaultDb >>
        /\ sessions = NoSessions

\* `judo items add`: TodoItem::create by another process; no snapshot is refreshed.
OtherAddItem ==
    /\ pc = "key"
    /\ next_item_id <= MaxItemId
    /\ \E l \in todo_lists :
          todo_items' = TodoItem_create(todo_items, next_item_id, l.id, << "X" >>).items
    /\ next_item_id' = next_item_id + 1
    /\ UNCHANGED <<todo_lists, next_list_id, lists, list_state, current_screen,
                   input_state, pc, last, config_dbs, sessions>>

\* `judo items delete`: TodoItem::delete by another process.
OtherDeleteItem ==
    /\ pc = "key"
    /\ \E x \in todo_items : todo_items' = TodoItem_delete(todo_items, x)
    /\ UNCHANGED <<todo_lists, next_list_id, next_item_id, lists, list_state,
                   current_screen, input_state, pc, last, config_dbs, sessions>>

NextStale ==
    \/ Draw
    \/ KeySelectItem
    \/ KeyDeleteItem
    \/ KeyMoveItemUp
    \/ KeyMoveItemDown
    \/ OtherAddItem
    \/ OtherDeleteItem

SpecStale == InitStale /\ [][NextStale]_vars

\* ------------------------------------------------------------ renaming
\* The item screens with two letters to type, so that a rename can give an item
\* a name that differs from the one it had and from those of its siblings.

Letters == {"X", "Y"}

\* Char(value): InputState::add_char
KeyLetter ==
    /\ InEditing
    /\ Len(input_state.current_input) < MaxInput
    /\ \E value \in Letters :
          input_state' = [input_state EXCEPT !.current_input = Append(@, value)]
    /\ Handled("add_char", 0, None, NoOutcome)
    /\ UNCHANGED <<db_vars, lists, list_state, current_screen>>

NextRename ==
    \/ Draw
    \/ KeySelectItem
    \/ KeyEnterAddItem
    \/ KeyEnterModifyItem
    \/ KeyMoveItemUp
    \/ KeyMoveItemDown
    \/ KeyEsc
    \/ KeyLetter
    \/ KeyBackspace
    \/ KeyCommitItem

SpecRename == InitStale /\ [][NextRename]_vars

\* ------------------------------------------------------------ properties

\* The state right after the handler of an intent returned, before the next draw.
AfterIntent(op) == pc = "draw" /\ last.op = op

\* ... when the intent had a record to act on.
Acted(op) == AfterIntent(op) /\ last.id # 0

ItemsOf(ti, list_id) == { x \in ti : x.list_id = list_id }

Row(rows, id) == CHOOSE x \in rows : x.id = id

OrderKeys(rows) == { x.ordering : x \in rows }

OrderKeysDistinct(rows) ==
    \A a, b \in rows : a.id # b.id => a.ordering # b.ordering

\* The sibling scope of the record an intent acted on, before and after it.
ScopeBefore(op) ==
    IF op \in {"move_list_up", "move_list_down", "create_list"} THEN last.todo_lists
    ELSE ItemsOf(last.todo_items, SelectedList.list.id)

ScopeAfter(op) ==
    IF op \in {"move_list_up", "move_list_down", "create_list"} THEN todo_lists
    ELSE ItemsOf(todo_items, SelectedList.list.id)

\* The selected list as it was before the intent.
ListBefore == At(last.lists, last.list_state)

KeysExchanged(before, after, id) ==
    \E a, b \in before :
       /\ a.id = id /\ b.id # id /\ a.ordering # b.ordering
       /\ after = (before \ {a, b})
                     \cup {[a EXCEPT !.ordering = b.ordering],
                           [b EXCEPT !.ordering = a.ordering]}

\* C3: a move that finds a neighbor exchanges the order keys of the moved record
\* and of one sibling; every other record is unchanged, and so is the set of order
\* keys of the scope.  Item moves leave the lists alone and list moves the items.
C3_SwapTouchesTwoRecords ==
    /\ \A op \in {"move_item_up", "move_item_down"} :
          (Acted(op) /\ last.out.swapped) =>
             /\ KeysExchanged(ScopeBefore(op), ScopeAfter(op), last.id)
             /\ todo_items \ ScopeAfter(op) = last.todo_items \ ScopeBefore(op)
             /\ OrderKeys(ScopeAfter(op)) = OrderKeys(ScopeBefore(op))
             /\ todo_lists = last.todo_lists
    /\ \A op \in {"move_list_up", "move_list_down"} :
          (Acted(op) /\ last.out.swapped) =>
             /\ KeysExchanged(last.todo_lists, todo_lists, last.id)
             /\ OrderKeys(todo_lists) = OrderKeys(last.todo_lists)
             /\ todo_items = last.todo_items

\* C3 witness: the middle one of three items was moved up; the third kept its key.
C3_Witness ==
    /\ Acted("move_item_up") /\ last.out.swapped
    /\ Cardinality(ScopeBefore("move_item_up")) = 3
    /\ last.j = 1

\* The record an intent acted on has the least / greatest order key of its scope.
IsMinOfScope(op) ==
    \A x \in ScopeBefore(op) : Row(ScopeBefore(op), last.id).ordering <= x.ordering

IsMaxOfScope(op) ==
    \A x \in ScopeBefore(op) : Row(ScopeBefore(op), last.id).ordering >= x.ordering

\* Nothing stored changed, the handle is the one the snapshot held, the call
\* returned Ok and did not swap.
MoveWasNoOp(handle) ==
    /\ todo_items = last.todo_items
    /\ todo_lists = last.todo_lists
    /\ last.out.self = << handle >>
    /\ last.out.result = "Ok"
    /\ ~last.out.swapped

\* C4: move_up on the record with the least order key of its scope and move_down
\* on the one with the greatest change no stored row and not the handle, and
\* return Ok.
C4_BoundaryNoOp ==
    /\ (Acted("move_item_up") /\ IsMinOfScope("move_item_up"))
          => MoveWasNoOp(At(ListBefore.items, last.j))
    /\ (Acted("move_item_down") /\ IsMaxOfScope("move_item_down"))
          => MoveWasNoOp(At(ListBefore.items, last.j))
    /\ (Acted("move_list_up") /\ IsMinOfScope("move_list_up"))
          => MoveWasNoOp(ListBefore.list)
    /\ (Acted("move_list_down") /\ IsMaxOfScope("move_list_down"))
          => MoveWasNoOp(ListBefore.list)

\* C4 witness: move_down on the last of several items.
C4_Witness ==
    /\ Acted("move_item_down") /\ IsMaxOfScope("move_item_down")
    /\ Cardinality(ScopeBefore("move_item_down")) >= 2

\* The record an intent acted on had a lower and a higher neighbor.
HadBothNeighbors(op) ==
    LET me == Row(ScopeBefore(op), last.id)
    IN  /\ \E x \in ScopeBefore(op) : x.ordering < me.ordering
        /\ \E x \in ScopeBefore(op) : x.ordering > me.ordering

\* C5: after move_up of a record that had both neighbors, move_down on the same
\* handle restores every stored order key and the handle.
C5_SwapRoundTrip ==
    /\ (Acted("move_item_up") /\ HadBothNeighbors("move_item_up")) =>
          \A next_item \in SelectNextItem(todo_items, last.out.self[1]) :
             LET back == TodoItem_move_down(todo_items, last.out.self[1], next_item)
             IN  /\ last.out.swapped /\ back.swapped
                 /\ back.rows = last.todo_items
                 /\ back.self = At(ListBefore.items, last.j)
    /\ (Acted("move_list_up") /\ HadBothNeighbors("move_list_up")) =>
          \A next_list \in SelectNextList(todo_lists, last.out.self[1]) :
             LET back == TodoList_move_down(todo_lists, last.out.self[1], next_list)
             IN  /\ last.out.swapped /\ back.swapped
                 /\ back.rows = last.todo_lists
                 /\ back.self = ListBefore.list

\* C5 witness: the middle one of three items was moved up and the stored keys
\* differ from those before.
C5_Witness ==
    /\ Acted("move_item_up") /\ HadBothNeighbors("move_item_up")
    /\ todo_items # last.todo_items

\* The new record has the order key max(scope) + 1, or 1 in an empty scope.
IsNextOrderKey(row, scope) ==
    /\ \A x \in scope : x.ordering < row.ordering
    /\ scope = {} => row.ordering = 1
    /\ scope # {} => \E x \in scope : x.ordering + 1 = row.ordering

\* C6: create gives the new record the order key max(order keys of its scope) + 1,
\* or 1 in an empty scope, the scope being the items of the same list for an item
\* and all lists for a list; the new record is last in ascending order.
C6_CreateAppends ==
    /\ Acted("create_item") =>
          LET row == Row(todo_items, last.id)
              n == Len(SelectedList.items)
          IN  /\ row \notin last.todo_items
              /\ row.list_id = SelectedList.list.id
              /\ todo_items = last.todo_items \cup {row}
              /\ IsNextOrderKey(row, ScopeBefore("create_item"))
              /\ TodoItem_get_by_list_id(todo_items, row.list_id)[n] = row
    /\ Acted("create_list") =>
          LET row == Row(todo_lists, last.id)
          IN  /\ row \notin last.todo_lists
              /\ todo_lists = last.todo_lists \cup {row}
              /\ IsNextOrderKey(row, last.todo_lists)
              /\ TodoList_get_all(todo_lists)[Len(lists)] = row

\* C6 witness: an item was added to an empty list, getting order key 1, while
\* another list holds items with order keys 1 and 2.
C6_Witness ==
    /\ Acted("create_item")
    /\ ScopeBefore("create_item") = {}
    /\ Row(todo_items, last.id).ordering = 1
    /\ \E x, y \in last.todo_items :
          /\ x.list_id # SelectedList.list.id /\ y.list_id = x.list_id
          /\ x.ordering = 1 /\ y.ordering = 2

\* C7: after a list is deleted no item with its list_id is stored and the items
\* fetched for it are the empty sequence; in no reachable state does an item
\* refer to a list that is not stored.
C7_CascadeDelete ==
    /\ Acted("delete_list") =>
          /\ \A x \in todo_lists : x.id # last.id
          /\ \A x \in todo_items : x.list_id # last.id
          /\ TodoItem_get_by_list_id(todo_items, last.id) = << >>
    /\ \A x \in todo_items : \E l \in todo_lists : l.id = x.list_id

\* C7 witness: a list holding two items was deleted while another list has one.
C7_Witness ==
    /\ Acted("delete_list")
    /\ Cardinality(ItemsOf(last.todo_items, last.id)) = 2
    /\ todo_items # {}

\* C8: after the selected item at index j is deleted and the items re-fetched, the
\* cursor is None when the list is empty, len - 1 when j >= len, and else still j,
\* now on the record that followed the deleted one.
C8_PostDeleteRepair ==
    Acted("delete_item") =>
       LET j == last.j
           old == ListBefore.items
           new == SelectedList.items
           n == Len(new)
       IN  /\ At(old, j).id = last.id
           /\ n = Len(old) - 1
           /\ \A x \in todo_items : x.id # last.id
           /\ SelectedList.item_state =
                 IF n = 0 THEN None ELSE IF j >= n THEN n - 1 ELSE j
           /\ j < n => At(new, j) = At(old, j + 1)
           /\ (Len(old) = 2 /\ j = 0) =>
                 (SelectedList.item_state = 0 /\ new = << At(old, 1) >>)

\* C8 witness: two items, the cursor on the first, which is deleted.
C8_Witness ==
    /\ Acted("delete_item")
    /\ Len(ListBefore.items) = 2
    /\ last.j = 0
    /\ SelectedList.item_state = 0

\* C9: after move-item-up with the cursor at j the cursor is j - 1 when the move
\* swapped and j when it did not; after move-item-down j + 1 and j.  Either way
\* the cursor is on the record that was selected before.
C9_PostMoveRepair ==
    /\ Acted("move_item_up") =>
          /\ SelectedList.item_state = IF last.out.swapped THEN last.j - 1 ELSE last.j
          /\ At(SelectedList.items, SelectedList.item_state).id = last.id
          /\ At(ListBefore.items, last.j).id = last.id
    /\ Acted("move_item_down") =>
          /\ SelectedList.item_state = IF last.out.swapped THEN last.j + 1 ELSE last.j
          /\ At(SelectedList.items, SelectedList.item_state).id = last.id
          /\ At(ListBefore.items, last.j).id = last.id

\* C9 witness: the last of three items was moved up.
C9_Witness ==
    /\ Acted("move_item_up") /\ last.out.swapped
    /\ last.j = 2
    /\ SelectedList.item_state = 1

EnterInEditing ==
    /\ pc = "draw"
    /\ last.screen \in EditingScreens
    /\ last.op \in {"commit_blank", "commit_no_list", "create_list", "update_list",
                    "create_item", "update_item", "create_db"}

\* The buffer the key found was empty or whitespace-only.
BufferWasBlank == \A k \in 1..Len(last.input) : last.input[k] = " "

\* Storage, configuration, snapshot and both cursors are as the key found them.
NothingPersisted ==
    /\ todo_lists = last.todo_lists
    /\ todo_items = last.todo_items
    /\ config_dbs = last.config_dbs

SnapshotAndCursorsKept ==
    /\ lists = last.lists
    /\ list_state = last.list_state

\* The list and the item the cursors designated when the key was handled.
HadSelectedList == last.list_state # None /\ last.list_state < Len(last.lists)

HadSelectedItem ==
    /\ HadSelectedList
    /\ ListBefore.item_state # None
    /\ ListBefore.item_state < Len(ListBefore.items)

\* C11: Enter in an editing screen (list name, item name, add database) with an
\* empty or whitespace-only buffer persists nothing and leaves the screen, the
\* buffer, the snapshot and both cursors as they were.
C11_BlankCommit ==
    (EnterInEditing /\ BufferWasBlank) =>
        /\ NothingPersisted
        /\ SnapshotAndCursorsKept
        /\ current_screen = last.screen
        /\ input_state.current_input = last.input

\* C11 witness (Scenario D): Enter on a whitespace-only buffer in the add item
\* screen, with a list selected.
C11_Witness ==
    /\ EnterInEditing
    /\ last.input = << " " >>
    /\ last.screen = "AddItem"
    /\ HadSelectedList

\* The create or rename that matches the editing screen the Enter was pressed in.
MatchingChangePersisted ==
    CASE last.screen = "AddList" ->
           \E x \in todo_lists :
              /\ x.name = last.input /\ x \notin last.todo_lists
              /\ todo_lists = last.todo_lists \cup {x}
      [] last.screen = "ModifyList" ->
           /\ HadSelectedList
           /\ Row(todo_lists, ListBefore.list.id).name = last.input
      [] last.screen = "AddItem" ->
           /\ HadSelectedList
           /\ \E x \in todo_items :
                 /\ x.name = last.input /\ x.list_id = ListBefore.list.id
                 /\ x \notin last.todo_items
                 /\ todo_items = last.todo_items \cup {x}
      [] last.screen = "ModifyItem" ->
           /\ HadSelectedItem
           /\ Row(todo_items, At(ListBefore.items, ListBefore.item_state).id).name
                 = last.input
      [] last.screen = "AddDB" ->
           config_dbs = Append(last.config_dbs, last.input)

LeftEditing ==
    /\ input_state = EmptyInput
    /\ current_screen = IF last.screen = "AddDB" THEN "ChangeDB" ELSE "Main"

C13_Cancel ==
    AfterIntent("cancel") =>
        /\ last.screen \in EditingScreens
        /\ input_state = EmptyInput
        /\ current_screen = last.entry[1].screen
        /\ todo_lists = last.entry[1].todo_lists
        /\ todo_items = last.entry[1].todo_items
        /\ lists = last.entry[1].lists
        /\ list_state = last.entry[1].list_state
        /\ config_dbs = last.config_dbs

\* C13 witness: Esc in the add database screen after a character was typed.
C13_Witness ==
    /\ AfterIntent("cancel")
    /\ last.screen = "AddDB"
    /\ last.input = << "X" >>
    /\ todo_items # {}

\* C14: a key handled in an editing screen, other than an Enter on a non-blank
\* buffer, leaves the list cursor, every element cursor, the order keys and the
\* completion flags as they were (nothing is persisted at all); an unmatched key
\* leaves the screen and the buffer as well.
C14_NoBrowsingIntentWhileEditing ==
    (/\ pc = "draw"
     /\ last.screen \in EditingScreens
     /\ ~(EnterInEditing /\ ~BufferWasBlank)) =>
        /\ NothingPersisted
        /\ SnapshotAndCursorsKept
        /\ last.op = "unmatched" =>
              /\ current_screen = last.screen
              /\ input_state.current_input = last.input

\* C14 witness: an unmatched key in the modify item screen, the cursor on the
\* second item of a list.
C14_Witness ==
    /\ AfterIntent("unmatched")
    /\ last.screen = "ModifyItem"
    /\ HadSelectedItem
    /\ ListBefore.item_state = 1

\* ---------------------------------------------------- snapshot and storage

\* The items a snapshot entry shows are exactly the rows stored for its list (id,
\* name, completion flag and order key), each once, in ascending order-key order.
MirrorsStorage(ui_list) ==
    /\ { ui_list.items[k] : k \in 1..Len(ui_list.items) }
          = ItemsOf(todo_items, ui_list.list.id)
    /\ \A k, l \in 1..Len(ui_list.items) :
          k < l => ui_list.items[k].ordering < ui_list.items[l].ordering

StoreIntents ==
    {"create_item", "update_item", "delete_item", "move_item_up", "move_item_down",
     "toggle_done", "create_list", "update_list", "delete_list", "move_list_up",
     "move_list_down"}

\* C18: in the single session, after every completed create, rename, delete, move
\* or toggle, each list of the snapshot (the affected one among them) shows
\* exactly the items stored for it, in ascending order-key order, with the stored
\* names and completion flags.
C18_SnapshotRefinement ==
    (pc = "draw" /\ last.op \in StoreIntents /\ last.id # 0) =>
        \A k \in 1..Len(lists) : MirrorsStorage(lists[k])

\* C18 witness: the second of three items was just toggled to done.
C18_Witness ==
    /\ Acted("toggle_done")
    /\ last.j = 1
    /\ Len(SelectedList.items) = 3
    /\ Row(todo_items, last.id).is_done

\* ---------------------------------------------------- storage failures

\* C15: a rename, delete or move of an item, in which a storage call may fail,
\* ends either with nothing persisted and snapshot and cursor untouched, or with
\* the change persisted whole (no two items of the list share an order key),
\* the snapshot showing what is stored and the cursor on a record of it.
C15_AllOrNothing ==
    (/\ pc = "draw"
     /\ last.op \in {"update_item", "delete_item", "move_item_up", "move_item_down"}
     /\ last.id # 0) =>
        \/ /\ todo_items = last.todo_items
           /\ lists = last.lists
        \/ /\ MirrorsStorage(SelectedList)
           /\ OrderKeysDistinct(ItemsOf(todo_items, SelectedList.list.id))
           /\ SelectedList.item_state = None
                 \/ SelectedList.item_state < Len(SelectedList.items)

\* ---------------------------------------------------- two processes

BothDone == \A s \in DOMAIN sessions : sessions[s].pc = "done"

\* The records that must be stored in the end: those stored at the start and
\* those created, less those a request deleted.
DeletedIds == { sessions[s].self[1].id : s \in { t \in Sessions : sessions[t].op = "delete" } }

ExpectedIds ==
    ({ x.id : x \in last.todo_items }
        \cup { sessions[s].created : s \in { t \in Sessions : sessions[t].op = "create" } })
       \ DeletedIds

\* C16: two processes each run one create, delete or move on the items of one
\* list; whatever the interleaving of their statements, in the end the order keys
\* of the list are pairwise distinct and every record created and not deleted is
\* stored.
C16_CrossSessionSafety ==
    (sessions # NoSessions /\ BothDone) =>
        /\ OrderKeysDistinct(ItemsOf(todo_items, 1))
        /\ { x.id : x \in todo_items } = ExpectedIds

\* The move of a request run alone on a table, from the SELECT to the second UPDATE.
MoveAlone(rows, req) ==
    LET self == req.start[1]
        neighbor == CHOOSE n \in (IF req.op = "move_up" THEN SelectPrevItem(rows, self)
                                  ELSE SelectNextItem(rows, self)) : TRUE
    IN  SwapOrdering(rows, self, neighbor).rows

\* The (moved record, neighbor) pair of a move request at the start, as ids.
PairAtStart(req) ==
    LET self == req.start[1]
        neighbor == CHOOSE n \in (IF req.op = "move_up"
                                  THEN SelectPrevItem(last.todo_items, self)
                                  ELSE SelectNextItem(last.todo_items, self)) : TRUE
    IN  IF neighbor = << >> THEN {} ELSE {self.id, neighbor[1].id}

DisjointMoves ==
    /\ sessions # NoSessions
    /\ \A s \in Sessions : sessions[s].op \in {"move_up", "move_down"}
    /\ \A s \in Sessions : PairAtStart(sessions[s]) # {}
    /\ PairAtStart(sessions[1]) \cap PairAtStart(sessions[2]) = {}

\* C17: two concurrent moves whose (moved record, neighbor) pairs are disjoint
\* end, under every interleaving of their statements, with the order keys that
\* running the first and then the second gives, and the second and then the first.
C17_DisjointMovesCommute ==
    (DisjointMoves /\ BothDone) =>
        /\ todo_items = MoveAlone(MoveAlone(last.todo_items, sessions[1]), sessions[2])
        /\ todo_items = MoveAlone(MoveAlone(last.todo_items, sessions[2]), sessions[1])

\* C17 witness: both moves are done, each swapped, and the statements of the two
\* interleaved.
C17_Witness ==
    /\ DisjointMoves /\ BothDone
    /\ \A s \in Sessions : sessions[s].raced
    /\ sessions[1].op = "move_up" /\ sessions[2].op = "move_down"

\* ---------------------------------------------------- one-shot operations

\* The invocation carried a name for a new record, and the name is blank.
BlankNameRequest == last.op \in {"add_list", "add_item"} /\ IsBlank(last.name)

\* The invocation carried a list selector with both a name and an id, or neither.
BadSelector ==
    /\ last.op \in {"delete_list", "add_item"}
    /\ (last.list_name = << >>) <=> (last.list_id = << >>)

\* The invocation ended by the exit, not by returning Ok.
Rejected == last.out.result = "DATAERR"

\* The invocation opened pools at most: it ran no query and no statement.
NoStatementRun ==
    \A k \in 1..Len(last.out.calls) : last.out.calls[k] = "get_db_pool"

TablesUnchanged == todo_lists = last.todo_lists /\ todo_items = last.todo_items

\* The selector of the invocation names a list the invocation found stored: by
\* id alone or by name alone.
SelectorResolves ==
    \/ /\ last.list_id # << >> /\ last.list_name = << >>
       /\ \E x \in last.todo_lists : x.id = last.list_id[1]
    \/ /\ last.list_id = << >> /\ last.list_name # << >>
       /\ \E x \in last.todo_lists : x.name = last.list_name[1]

\* C19 (as stated): a one-shot request with a blank name, or with a list
\* selector that gives both a name and an id or neither, is rejected before any
\* query or statement is run, and the tables are unchanged.
C19_ValidationBeforeStorage ==
    (BlankNameRequest \/ BadSelector) =>
        Rejected /\ NoStatementRun /\ TablesUnchanged

\* C19 (amended): a one-shot request whose list selector gives both a name and
\* an id, or neither, is rejected by the exit after the pool was opened and
\* before any query or statement is run, and the tables are unchanged; the name
\* of the new record is not validated: add_list with a blank name returns Ok,
\* and add_item with a blank name is turned away only when its selector is bad
\* or names no stored list.
C19_SelectorValidation ==
    /\ BadSelector =>
          /\ Rejected /\ NoStatementRun /\ TablesUnchanged
          /\ Len(last.out.calls) > 0
    /\ (last.op = "add_list" /\ IsBlank(last.name)) => last.out.result = "Ok"
    /\ (last.op = "add_item" /\ IsBlank(last.name) /\ Rejected) =>
          BadSelector \/ ~SelectorResolves

\* C19 witness: delete_list was given both the name and the id of a stored list
\* and exited, with the list still stored.
C19_Witness ==
    /\ last.op = "delete_list"
    /\ last.list_name # << >> /\ last.list_id # << >>
    /\ \E x \in todo_lists : x.id = last.list_id[1] /\ x.name = last.list_name[1]
    /\ Rejected

\* C20: add_list with the empty string as name, and add_item with the empty
\* string as name and a selector that names a stored list, return Ok and leave
\* exactly one new record, whose name is the empty string, everything else as
\* it was.
C20_EmptyNameAccepted ==
    /\ (last.op = "add_list" /\ last.name = << >>) =>
          /\ last.out.result = "Ok"
          /\ todo_items = last.todo_items
          /\ last.todo_lists \subseteq todo_lists
          /\ Cardinality(todo_lists \ last.todo_lists) = 1
          /\ \A x \in todo_lists \ last.todo_lists : x.name = << >>
    /\ (last.op = "add_item" /\ last.name = << >> /\ SelectorResolves) =>
          /\ last.out.result = "Ok"
          /\ todo_lists = last.todo_lists
          /\ last.todo_items \subseteq todo_items
          /\ Cardinality(todo_items \ last.todo_items) = 1
          /\ \A x \in todo_items \ last.todo_items : x.name = << >>

\* C20 witness: a list was added with the empty name, and an item with the
\* empty name was just added to it, the list being selected by its empty name.
C20_Witness ==
    /\ last.op = "add_item" /\ last.name = << >>
    /\ last.list_name = << << >> >> /\ last.list_id = << >>
    /\ last.out.result = "Ok"
    /\ \E l \in todo_lists, x \in todo_items :
          l.name = << >> /\ x.list_id = l.id /\ x.name = << >>

\* The item id of the invocation is not stored.
ItemAbsent ==
    /\ last.op \in {"delete_item", "toggle_done_item"}
    /\ ~ \E x \in last.todo_items : x.id = last.id

\* The selector of the invocation is well formed (an id alone or a name alone)
\* and no stored list has that id or name.
ListAbsent ==
    /\ last.op \in {"delete_list", "add_item"}
    /\ ~ BadSelector
    /\ ~ SelectorResolves

\* C21: delete_item and toggle_done_item with an id that is not stored, and
\* delete_list and add_item with a selector whose id or name is not stored, end
\* in the error outcome and leave every stored list and item as it was.
C21_NotFound ==
    (ItemAbsent \/ ListAbsent) => Rejected /\ TablesUnchanged

\* C21 witness: add_item named a list that is not stored, other lists and items
\* being stored, and ended in the error outcome.
C21_Witness ==
    /\ ListAbsent /\ last.op = "add_item" /\ last.list_name # << >>
    /\ todo_lists # {} /\ todo_items # {}
    /\ Rejected

\* The stored list the selector of the invocation names: by id, or by name.
SelectorNames(x) ==
    \/ last.list_id # << >> /\ last.list_name = << >> /\ x.id = last.list_id[1]
    \/ last.list_id = << >> /\ last.list_name # << >> /\ x.name = last.list_name[1]

\* C23: a delete_item that returned Ok removed the item of that id and nothing
\* else: every other item, of the same list and of every other list, and every
\* list is stored as before; a delete_list that returned Ok removed one list the
\* selector names, and every other list and the items of every other list are
\* stored as before.
C23_DeleteRemovesExactlyThat ==
    /\ (last.op = "delete_item" /\ last.out.result = "Ok") =>
          /\ todo_lists = last.todo_lists
          /\ todo_items = { x \in last.todo_items : x.id # last.id }
          /\ Cardinality(todo_items) = Cardinality(last.todo_items) - 1
    /\ (last.op = "delete_list" /\ last.out.result = "Ok") =>
          \E gone \in last.todo_lists :
             /\ SelectorNames(gone)
             /\ todo_lists = last.todo_lists \ {gone}
             /\ { x \in todo_items : x.list_id # gone.id }
                   = { x \in last.todo_items : x.list_id # gone.id }

\* C23 witness: an item was just deleted from a list that keeps another item,
\* while another list holds an item too.
C23_Witness ==
    /\ last.op = "delete_item" /\ last.out.result = "Ok"
    /\ \E d \in last.todo_items, x, y \in todo_items :
          /\ d.id = last.id
          /\ x.list_id = d.list_id
          /\ y.list_id # d.list_id

\* ------------------------------------------- one-shot operations, counted

\* C22: every stored item is done exactly when the number of toggle_done_item
\* calls that returned Ok on it since it was created is odd (a new item, with no
\* toggle yet, is not done); and a toggle that returned Ok left every other
\* item, its completion flag included, as it was.
C22_ToggleParity ==
    /\ \A x \in todo_items : x.is_done <=> (last.tally.toggles[x.id] % 2 = 1)
    /\ (last.op = "toggle_done_item" /\ last.out.result = "Ok") =>
          /\ \A x \in todo_items : x.id # last.id => x \in last.todo_items
          /\ \A x \in last.todo_items : x.id # last.id => x \in todo_items

\* C22 witness: an item was just toggled for the third time and is done, while
\* another item, toggled twice, is not.
C22_Witness ==
    /\ last.op = "toggle_done_item" /\ last.out.result = "Ok"
    /\ last.tally.toggles[last.id] = 3
    /\ \E x, y \in todo_items :
          /\ x.id = last.id /\ x.is_done
          /\ y.id # last.id /\ last.tally.toggles[y.id] = 2 /\ ~ y.is_done

\* C24: an add_item that returned Ok, its list selected by name or by id, added
\* exactly one item, to a list the selector names, and left every item stored
\* before as it was; and every stored list holds as many items as add_item calls
\* targeted it minus the delete_item calls that took an item from it.
C24_AddItemFrame ==
    /\ (last.op = "add_item" /\ last.out.result = "Ok") =>
          /\ todo_lists = last.todo_lists
          /\ last.todo_items \subseteq todo_items
          /\ Cardinality(todo_items \ last.todo_items) = 1
          /\ \A x \in todo_items \ last.todo_items :
                \E target \in last.todo_lists :
                   SelectorNames(target) /\ x.list_id = target.id
    /\ \A l \in todo_lists :
          Cardinality(ItemsOf(todo_items, l.id))
             = last.tally.added[l.id] - last.tally.deleted[l.id]

\* C24 witness: an item was just added to the second list, selected by name,
\* while the first list, of another name, holds an item and has lost one.
C24_Witness ==
    /\ last.op = "add_item" /\ last.out.result = "Ok"
    /\ last.list_name # << >>
    /\ \E l, m \in todo_lists :
          /\ l.name # m.name /\ l.ordering < m.ordering
          /\ m.name = last.list_name[1]
          /\ last.tally.added[l.id] = 2 /\ last.tally.deleted[l.id] = 1
          /\ last.tally.added[m.id] = 1

\* ------------------------------------------------------------ navigation

\* An element navigation key (next, previous, first, last) was just handled
\* with a list selected whose item collection is empty.
NavigatedEmpty ==
    /\ AfterIntent("select_item")
    /\ last.nav \in {"next", "previous", "first", "last"}
    /\ HadSelectedList
    /\ ListBefore.items = << >>

C26_ListNavigationClamped ==
    AfterIntent("select_list") =>
        LET n == Len(last.lists)
            c == last.j
        IN  /\ lists = last.lists
            /\ list_state = None \/ list_state \in 0..(n - 1)
            /\ n = 0 => list_state = c
            /\ (n > 0 /\ c # None /\ c < n) =>
                  list_state =
                     CASE last.nav = "next" -> IF c = n - 1 THEN c ELSE c + 1
                       [] last.nav = "previous" -> IF c = 0 THEN c ELSE c - 1
                       [] last.nav = "first" -> 0
                       [] last.nav = "last" -> n - 1

\* C26 witness: next was just pressed with the last of two lists selected, and
\* the cursor is still on it.
C26_Witness ==
    /\ AfterIntent("select_list") /\ last.nav = "next"
    /\ Len(lists) = 2 /\ last.j = 1 /\ list_state = 1

\* ------------------------------------------------------ list cursor repair

\* The three repair rules for a cursor c over n records.
Repaired(c, n) == IF n = 0 THEN None ELSE IF c >= n THEN n - 1 ELSE c

ListIntents == {"delete_list", "move_list_up", "move_list_down"}

\* Whenever the list cursor denotes another logical list than before the key,
\* the element cursor of the list it denotes is None.
ElementCursorReset ==
    (HasSelectedList /\ SelectedList.list.id # last.id) =>
        SelectedList.item_state = None

EnterIntentOf(screen) ==
    CASE screen = "AddList" -> "enter_add_list"
      [] screen = "ModifyList" -> "enter_modify_list"
      [] screen = "AddItem" -> "enter_add_item"
      [] screen = "ModifyItem" -> "enter_modify_item"
      [] screen = "AddDB" -> "enter_add_db"

EnteredFrom(screen) == IF screen = "AddDB" THEN "ChangeDB" ELSE "Main"

HandleOps == {"update_name", "list_update_name", "toggle_done", "move_up", "move_down"}

\* The stored row of the record the caller holds.
StoredItem == Row(todo_items, last.self.id)

StoredList == Row(todo_lists, last.list.id)

\* C29: update_name, toggle_done, move_up and move_down that returned an error
\* left the record in memory, item and list, exactly as it was before the call
\* (and, for update_name and toggle_done, the table too); one that returned Ok
\* left the field it writes (name, is_done, ordering) in memory equal to the
\* stored one, and in memory changed no other field.
C29_WriteThrough ==
    last.op \in HandleOps =>
        /\ last.result \in {"Ok", "Err"}
        /\ last.result = "Err" =>
              /\ last.self = last.before
              /\ last.list = last.list_before
              /\ last.op \in {"update_name", "list_update_name", "toggle_done"} =>
                    todo_items = last.todo_items /\ todo_lists = last.todo_lists
        /\ (last.result = "Ok" /\ last.op = "update_name") =>
              /\ last.self.name = StoredItem.name
              /\ last.self = [last.before EXCEPT !.name = last.self.name]
        /\ (last.result = "Ok" /\ last.op = "list_update_name") =>
              /\ last.list.name = StoredList.name
              /\ last.list = [last.list_before EXCEPT !.name = last.list.name]
        /\ (last.result = "Ok" /\ last.op = "toggle_done") =>
              /\ last.self.is_done = StoredItem.is_done
              /\ last.self = [last.before EXCEPT !.is_done = ~ last.before.is_done]
        /\ (last.result = "Ok" /\ last.op \in {"move_up", "move_down"}) =>
              /\ last.self.ordering = StoredItem.ordering
              /\ last.self = [last.before EXCEPT !.ordering = last.self.ordering]

\* C29 witness: update_name with a new name just failed, after an earlier call
\* had succeeded in setting the completion flag; the record in memory keeps its
\* old name.
C29_Witness ==
    /\ last.op = "update_name" /\ last.result = "Err"
    /\ last.self.is_done /\ StoredItem.is_done
    /\ last.self.name = << "X" >>

\* A sequence with the entries at p and q exchanged.
Transposed(s, p, q) ==
    [k \in 1..Len(s) |-> IF k = p THEN s[q] ELSE IF k = q THEN s[p] ELSE s[k]]

\* There is a gap in the order keys of a table.
HasGap(rows) ==
    \E x \in rows : x.ordering > 1 /\ x.ordering - 1 \notin OrderKeys(rows)
                       /\ \E y \in rows : y.ordering < x.ordering

\* C30: on a list whose order keys are distinct, with or without gaps, a
\* move_up that returned Ok exchanged the keys of the record and of the sibling
\* with the greatest key strictly below it, a move_down of the sibling with the
\* smallest key strictly above it, and of no other: the ascending sequence is
\* the earlier one with that adjacent pair transposed (the same sequence when
\* there is no such sibling), and the set of keys in use is the same.
C30_MoveAcrossGaps ==
    (/\ last.op \in {"move_up", "move_down"}
     /\ last.result = "Ok"
     /\ OrderKeysDistinct(last.todo_items)) =>
        LET before == IdsInOrder(last.todo_items)
            after == IdsInOrder(todo_items)
            p == PositionOf(before, last.before.id)
            q == IF last.op = "move_up" THEN p - 1 ELSE p + 1
        IN  /\ OrderKeys(todo_items) = OrderKeys(last.todo_items)
            /\ IF q \in 1..Len(before)
               THEN /\ after = Transposed(before, p, q)
                    /\ last.neighbor # << >>
                    /\ last.neighbor[1].id = before[q]
                    /\ \A x \in todo_items :
                          x.id \notin {before[p], before[q]} => x \in last.todo_items
               ELSE /\ after = before
                    /\ todo_items = last.todo_items

\* C30 witness: of three items with the keys 1, 2 and 4, the last was just
\* moved up: it holds key 2, the middle one key 4, the first is where it was.
C30_Witness ==
    /\ last.op = "move_up" /\ last.result = "Ok"
    /\ OrderKeys(last.todo_items) = {1, 2, 4}
    /\ last.before.ordering = 4 /\ last.self.ordering = 2
    /\ HasGap(last.todo_items)
    /\ IdsInOrder(last.todo_items) = << 1, 2, 3 >>
    /\ IdsInOrder(todo_items) = << 1, 3, 2 >>

\* C31: after every move_up or move_down that returned Ok on a list with
\* distinct order keys, the order key of the handle in memory is the one stored
\* for the record and the keys of the list are still distinct; and after k such
\* moves in a row in one direction on the same handle, never re-fetched, the
\* record is k positions further up (down), or first (last) where the list ends
\* sooner.
C31_HandleFollowsMoves ==
    (/\ last.op \in MoveOps
     /\ last.result = "Ok"
     /\ OrderKeysDistinct(last.todo_items)) =>
        LET n == Cardinality(todo_items)
            now == PositionOf(IdsInOrder(todo_items), last.self.id)
            k == last.streak.k
            from == last.streak.from
        IN  /\ last.self.ordering = StoredItem.ordering
            /\ OrderKeysDistinct(todo_items)
            /\ OrderKeys(todo_items) = OrderKeys(last.todo_items)
            /\ k \in 1..MaxStreak
            /\ last.op = "move_up" =>
                  now = (IF from - k >= 1 THEN from - k ELSE 1)
            /\ last.op = "move_down" =>
                  now = (IF from + k <= n THEN from + k ELSE n)

\* C31 witness: the last of four items was just moved up for the third time in
\* a row and is the first.
C31_Witness ==
    /\ last.op = "move_up" /\ last.result = "Ok"
    /\ OrderKeysDistinct(todo_items)
    /\ Cardinality(todo_items) = 4
    /\ last.streak.k = 3 /\ last.streak.from = 4
    /\ IdsInOrder(todo_items)[1] = last.self.id

\* ------------------------------------------------------------ item moves

ItemMoves == {"move_item_up", "move_item_down"}

\* The item an item intent acted on, as stored before the intent.
ItemBefore == Row(last.todo_items, last.id)

\* C32: a move of an item leaves every item of every other list, and every
\* list, stored as before; the item it exchanged keys with, if any, is an item
\* of the same list; and when the same list holds no item with a lower (for
\* move_down: higher) key, nothing stored changes, whatever keys the items of
\* other lists have.
C32_MovesStayInList ==
    \A op \in ItemMoves :
       Acted(op) =>
          LET own == ItemsOf(last.todo_items, ItemBefore.list_id)
              beyond == { y \in own : IF op = "move_item_up"
                                      THEN y.ordering < ItemBefore.ordering
                                      ELSE y.ordering > ItemBefore.ordering }
          IN  /\ todo_lists = last.todo_lists
              /\ { x \in todo_items : x.list_id # ItemBefore.list_id }
                    = { x \in last.todo_items : x.list_id # ItemBefore.list_id }
              /\ \A x \in todo_items \ last.todo_items : x.list_id = ItemBefore.list_id
              /\ last.out.swapped =>
                    \E y \in beyond :
                       /\ Row(todo_items, y.id).ordering = ItemBefore.ordering
                       /\ Row(todo_items, last.id).ordering = y.ordering
              /\ beyond = {} => (todo_items = last.todo_items /\ ~ last.out.swapped)

\* C32 witness: move up was just pressed on the only item of a list, of key 2,
\* while another list holds an item of key 1; nothing was exchanged.
C32_Witness ==
    /\ Acted("move_item_up")
    /\ ItemBefore.ordering = 2
    /\ ItemsOf(todo_items, ItemBefore.list_id) = { ItemBefore }
    /\ \E x \in todo_items : x.list_id # ItemBefore.list_id /\ x.ordering = 1
    /\ ~ last.out.swapped

\* ------------------------------------------------------------ intents without an element

ElementIntents == {"delete_item", "toggle_done", "move_item_up", "move_item_down"}

\* Before the key no list was selected, or the selected list had no element cursor.
HadNoElement == ~ HadSelectedList \/ ListBefore.item_state = None

\* C33: delete item, toggle done and move item up or down, pressed in the Main
\* screen with no list selected or with no item selected in the selected list,
\* hand no record to storage and leave the tables, the snapshot, both cursors,
\* the screen and the input buffer as they were.
C33_NoElementNoEffect ==
    \A op \in ElementIntents :
       (AfterIntent(op) /\ HadNoElement) =>
          /\ last.id = 0
          /\ last.out = NoOutcome
          /\ todo_lists = last.todo_lists
          /\ todo_items = last.todo_items
          /\ lists = last.lists
          /\ list_state = last.list_state
          /\ current_screen = last.screen
          /\ input_state.current_input = last.input

\* C33 witness: delete was just pressed on a selected list that holds items but
\* has no element cursor.
C33_Witness ==
    /\ AfterIntent("delete_item")
    /\ HadSelectedList
    /\ ListBefore.item_state = None
    /\ ListBefore.items # << >>

\* ------------------------------------------------------------ items[j]

\* The intents that read items[j] of the selected list.
IndexingIntents == ElementIntents \cup {"update_item"}

WasStale ==
    /\ HadSelectedList
    /\ { ListBefore.items[k].id : k \in 1..Len(ListBefore.items) }
          # { x.id : x \in ItemsOf(last.todo_items, ListBefore.list.id) }

CursorInSnapshot ==
    \/ SelectedList.item_state = None
    \/ /\ 0 <= SelectedList.item_state
       /\ SelectedList.item_state < Len(SelectedList.items)

\* C35: a delete or move of an item handled on a snapshot that another process
\* had made stale ends with the element cursor None or an index of the
\* snapshot the intent has just fetched.
C35_CursorValidAfterExternalChange ==
    \A op \in {"delete_item", "move_item_up", "move_item_down"} :
       (Acted(op) /\ WasStale) => CursorInSnapshot

\* ------------------------------------------------------------ rename

\* C36: a committed rename of the selected item stores the new name in that
\* item's row and changes nothing else: its order key and every other row are as
\* before, the refreshed snapshot lists the same records at the same positions
\* with the same order keys and, but for the renamed one, the same names, and
\* both cursors are as before, so the element cursor denotes the renamed record.
C36_RenameFrame ==
    Acted("update_item") =>
       LET after == Row(todo_items, last.id)
           n == Len(ListBefore.items)
       IN  /\ after = [ItemBefore EXCEPT !.name = last.input]
           /\ todo_items \ {after} = last.todo_items \ {ItemBefore}
           /\ todo_lists = last.todo_lists
           /\ list_state = last.list_state
           /\ SelectedList.item_state = last.j
           /\ Len(SelectedList.items) = n
           /\ \A k \in 1..n :
                 /\ SelectedList.items[k].id = ListBefore.items[k].id
                 /\ SelectedList.items[k].ordering = ListBefore.items[k].ordering
                 /\ k # last.j + 1 => SelectedList.items[k] = ListBefore.items[k]
           /\ 0 <= last.j /\ last.j < n
           /\ At(SelectedList.items, last.j) = after

\* C36 witness: an item that is not the first of its list was just given a name
\* that differs from the one it had and from the name of a sibling.
C36_Witness ==
    /\ Acted("update_item")
    /\ last.j >= 1
    /\ last.input # ItemBefore.name
    /\ \E x \in ItemsOf(todo_items, ItemBefore.list_id) : x.name # last.input

\* ------------------------------------------------------------ failed commits

CommitIntents == {"create_list", "update_list", "create_item", "update_item", "create_db"}

\* C37: after Enter with a non-blank buffer in an editing screen, the screen and
\* the buffer are those found by the key when the storage operation of the
\* commit failed, and the screen is the one the editing screen returns to (Main,
\* or ChangeDB after adding a database) with an empty buffer when it succeeded.
C37_FailedCommitStays ==
    \A op \in CommitIntents :
       AfterIntent(op) =>
          /\ last.screen \in EditingScreens
          /\ ~IsBlank(last.input)
          /\ IF last.out.result = "Err"
             THEN /\ current_screen = last.screen
                  /\ input_state.current_input = last.input
                  /\ input_state.is_modifying = (op \in {"update_list", "update_item"})
             ELSE /\ current_screen = (IF op = "create_db" THEN "ChangeDB" ELSE "Main")
                  /\ input_state = EmptyInput

\* C37 witness: the rename of an item has just failed; the modify item screen
\* still shows the typed name.
C37_Witness ==
    /\ AfterIntent("update_item")
    /\ last.out.result = "Err"
    /\ current_screen = "ModifyItem"
    /\ input_state.current_input # << >>

\* ------------------------------------------------------------ lists of one name

\* The lists the invocation found under the name it was given.
SameNamed == { x \in last.todo_lists : x.name = last.list_name[1] }

\* The invocation selected its list by name, and several lists had that name.
ByAmbiguousName ==
    /\ last.list_id = << >>
    /\ last.list_name # << >>
    /\ Cardinality(SameNamed) >= 2

\* C38: delete_list and add_item given a name that several lists share act on
\* the one of them with the lowest order key and on no other: delete_list
\* removes that list and its items only, add_item adds one item to that list
\* only, and the other lists of that name and their items are as before.
C38_FirstOfSameName ==
    \A op \in {"delete_list", "add_item"} :
       (last.op = op /\ ByAmbiguousName) =>
          \E target \in SameNamed :
             /\ \A y \in SameNamed \ {target} : target.ordering < y.ordering
             /\ last.out.result = "Ok"
             /\ op = "delete_list" =>
                   /\ todo_lists = last.todo_lists \ {target}
                   /\ todo_items = { x \in last.todo_items : x.list_id # target.id }
             /\ op = "add_item" =>
                   /\ todo_lists = last.todo_lists
                   /\ last.todo_items \subseteq todo_items
                   /\ Cardinality(todo_items \ last.todo_items) = 1
                   /\ \A row \in todo_items \ last.todo_items :
                         row.list_id = target.id /\ row.name = last.name

\* C38 witness: delete_list by a name that two lists had has just removed the
\* first of them; the other one and an item of it are still stored.
C38_Witness ==
    /\ last.op = "delete_list"
    /\ ByAmbiguousName
    /\ Cardinality(todo_lists) = 1
    /\ \E l \in todo_lists : l.name = last.list_name[1]
                             /\ \E x \in todo_items : x.list_id = l.id

====
